---- MODULE Spec2Model ----
(***************************************************************************)
(* A model of the tskills registry backend: the Postgres store (tables,    *)
(* row-level-security policies, triggers and RPC functions of the          *)
(* supabase/migrations) and the registry client operations of              *)
(* src/lib/registry.ts that drive it.                                      *)
(*                                                                         *)
(* Store semantics.  Every PostgREST request is one transaction at the     *)
(* default isolation level READ COMMITTED: a statement reads the rows      *)
(* committed when it starts plus the transaction's own writes; a row       *)
(* written by a transaction stays locked until that transaction commits;   *)
(* a writer that waited for a row lock goes on with the values it had      *)
(* already computed from other tables.  A transaction is therefore         *)
(* modelled as the steps "statement executes" and "commit", between which  *)
(* other transactions may run.  The variables hold committed rows only;    *)
(* the writes of a transaction in flight are kept in tx[client].           *)
(***************************************************************************)
EXTENDS Integers, Sequences, FiniteSets, TLC

VARIABLES
  orgs,        \* organizations: the set of existing organization slugs
  members,     \* org_members: [org, user] -> role, NONE when no row
  teams,       \* teams: the set of existing team ids
  teamMembers, \* team_members: the set of <<team, user>> rows
  skills,      \* skills: skill id -> row, NoSkill when no row
  versions,    \* skill_versions: skill id -> set of version strings
  skillLock,   \* skill id -> client whose transaction locks the skills row
  tx,          \* client -> the request (transaction) it has in flight
  res,         \* client -> outcome of its last finished operation
  now,         \* NOW(): milliseconds since an instant all windows align to
  rateConfig,  \* rate_limit_config: action -> row
  rateLimits,  \* rate_limits: the set of counter rows
  rateLog,     \* per counter key: check calls made and calls allowed (ghost)
  rl,          \* client -> what its last checkRateLimit call reported
  pair,        \* the two version strings handed to an ORDER BY semver_sort_key
  sorted,      \* how the sort ordered them, NONE before it ran
  versionRows, \* skill_versions: the rows with content, publisher, published_at
  draft,       \* client -> content and published_at of the row it is inserting
  downloads,   \* skills.downloads: skill id -> download counter
  usernames    \* users.username: user id -> username

rateVars == <<now, rateConfig, rateLimits, rateLog, rl>>
sortVars == <<pair, sorted>>
svcVars == <<sortVars, versionRows, draft, downloads, usernames>>
vars == <<orgs, members, teams, teamMembers, skills, versions, skillLock, tx, res, rateVars,
          svcVars>>

NULL == "NULL"
NONE == "NONE"
ANON == "anon"

Users == {"u1", "u2", "u3"}
Principals == Users \cup {ANON}
Orgs == {"o1"}
Teams == {"t1"}
Clients == {"c1", "c2"}
Roles == {"owner", "admin", "member"}
Visibilities == {"public", "private", "org", "team"}

\* teams.org_id: the organization a team id belongs to.
TeamOrg(t) == "o1"

\* One skill name per namespace: a skill id is the user or organization
\* that owns it (unique(owner, name) with a single name).
SkillIds == Users \cup Orgs

NoSkill == [owner_id |-> NULL, owner_org_id |-> NULL, owner |-> NULL,
            visibility |-> NULL, team_id |-> NULL, latest_version |-> NULL,
            deprecated |-> FALSE, deprecation_message |-> NULL]

(***************************************************************************)
(* Text.  A TEXT value is a sequence of one-character strings.             *)
(***************************************************************************)
Digits == {"0", "1", "2", "3", "4", "5", "6", "7", "8", "9"}

\* Collation order of the characters that occur in sort keys of the model
\* (digits before letters, each in the usual order).
Alphabet == <<"0", "1", "2", "3", "4", "5", "6", "7", "8", "9", "a", "b">>

CharRank(c) == CHOOSE i \in 1..Len(Alphabet) : Alphabet[i] = c

\* text < text
TextLess(a, b) ==
  \E i \in 1..Len(b) :
    /\ \A j \in 1..(i - 1) : j <= Len(a) /\ a[j] = b[j]
    /\ \/ i = Len(a) + 1
       \/ i <= Len(a) /\ CharRank(a[i]) < CharRank(b[i])

\* position(c in s): index of the first c, 0 when there is none
Position(c, s) ==
  IF \E i \in 1..Len(s) : s[i] = c
  THEN CHOOSE i \in 1..Len(s) : s[i] = c /\ \A j \in 1..(i - 1) : s[j] # c
  ELSE 0

\* split_part(s, c, 1)
SplitPart1(s, c) ==
  IF Position(c, s) = 0 THEN s ELSE SubSeq(s, 1, Position(c, s) - 1)

\* substring(s from i)
SubstringFrom(s, i) == SubSeq(s, i, Len(s))

\* string_to_array(s, c)
RECURSIVE StringToArray(_, _)
StringToArray(s, c) ==
  IF s = <<>> THEN <<>>
  ELSE IF Position(c, s) = 0 THEN <<s>>
  ELSE IF Position(c, s) = Len(s) THEN <<SubSeq(s, 1, Len(s) - 1), <<>>>>
  ELSE <<SubSeq(s, 1, Position(c, s) - 1)>>
         \o StringToArray(SubstringFrom(s, Position(c, s) + 1), c)

\* lpad(s, n, c): pads on the left, and truncates on the right when s is longer
Lpad(s, n, c) ==
  IF Len(s) >= n THEN SubSeq(s, 1, n)
  ELSE [i \in 1..(n - Len(s)) |-> c] \o s

\* COALESCE(arr[i], '0')
PartOrZero(arr, i) == IF i <= Len(arr) THEN arr[i] ELSE <<"0">>

\* s ~ '^\d+$'
IsNumericIdent(s) == Len(s) > 0 /\ \A i \in 1..Len(s) : s[i] \in Digits

(***************************************************************************)
(* Version strings and the sort key of the latest-version trigger.         *)
(***************************************************************************)
PadWidth == 10

\* The version strings clients publish, as text.
VersionList ==
  <<
     <<"1", ".", "0", ".", "0">>,                   \* 1.0.0
     <<"1", ".", "0", ".", "0", "-", "2">>,         \* 1.0.0-2
     <<"1", ".", "0", ".", "0", "-", "1", "1">>,    \* 1.0.0-11
     <<"1", ".", "0", ".", "1">>,                   \* 1.0.1
     <<"1", ".", "0", ".", "0", "-", "a">>,         \* 1.0.0-a
     <<"1", ".", "0", ".", "0", "+", "b">>,         \* 1.0.0+b
     <<"1", ".", "0", ".", "0", "-", "a", ".", "1">>, \* 1.0.0-a.1
     <<"1", "0", ".", "0", ".", "0">>,              \* 10.0.0
     <<"2", "0", "0", "0", "0", "0", "0", "0", "0", "0", ".", "0", ".", "0">>,
                                                    \* 2000000000.0.0
     <<"1", "0", "0", "0", "0", "0", "0", "0", "0", "0", "0", ".", "0", ".", "0">>
                                                    \* 10000000000.0.0
  >>

NumVersions == 5

\* The content blobs clients publish.
Contents == <<"x", "y">>
Versions == {VersionList[i] : i \in 1..NumVersions}
AllVersions == {VersionList[i] : i \in 1..Len(VersionList)}
\* The two version strings with a major version of 10 and of 11 digits.
LongVersions == {VersionList[9], VersionList[10]}

\* Mutant: every pre-release identifier sorted as text, as the trigger did
\* before semver_sort_key (1.0.0-11 below 1.0.0-2).
SemverIdentKeyLexical(ident) == <<"1">> \o ident

\* semver_sort_key(p_version): the TEXT[] the trigger orders by
SemverIdentKey(ident) ==
  IF IsNumericIdent(ident) THEN <<"0">> \o Lpad(ident, PadWidth, "0")
  ELSE <<"1">> \o ident

SemverSortKey(p_version) ==
  LET stripped == SplitPart1(p_version, "+")
      hasPre   == Position("-", stripped) > 0
      pre      == SubstringFrom(stripped, Position("-", stripped) + 1)
      core     == IF hasPre THEN SplitPart1(stripped, "-") ELSE stripped
      parts    == StringToArray(core, ".")
      idents   == StringToArray(pre, ".")
      base     == << Lpad(PartOrZero(parts, 1), PadWidth, "0"),
                     Lpad(PartOrZero(parts, 2), PadWidth, "0"),
                     Lpad(PartOrZero(parts, 3), PadWidth, "0") >>
  IN IF hasPre
     THEN base \o << <<"0">> >> \o [i \in 1..Len(idents) |-> SemverIdentKey(idents[i])]
     ELSE base \o << <<"1">> >>

\* TEXT[] < TEXT[]: element by element, a proper prefix sorts first
ArrayLess(a, b) ==
  \E i \in 1..Len(b) :
    /\ \A j \in 1..(i - 1) : j <= Len(a) /\ a[j] = b[j]
    /\ \/ i = Len(a) + 1
       \/ i <= Len(a) /\ TextLess(a[i], b[i])

\* SELECT version FROM skill_versions WHERE skill_id = ...
\*   ORDER BY semver_sort_key(version) DESC LIMIT 1
\* over the rows a statement sees: the set of possible results (rows with
\* equal keys come in either order; no row gives NULL).
LatestCandidates(rows) ==
  IF rows = {} THEN {NULL}
  ELSE {v \in rows : \A w \in rows : ~ArrayLess(SemverSortKey(v), SemverSortKey(w))}

(***************************************************************************)
(* Row-level-security helpers and policies.  a is auth.uid(), ANON for a   *)
(* request without a session.                                              *)
(***************************************************************************)
GetOrgRole(o, a) == IF a \in Users /\ o \in orgs THEN members[o, a] ELSE NONE

IsOrgMember(o, a) == GetOrgRole(o, a) # NONE

CanManageOrg(o, a) == GetOrgRole(o, a) \in {"owner", "admin"}

IsTeamMember(t, a) == <<t, a>> \in teamMembers

\* Mutant: a team skill shown to every member of the organization.
SkillsVisibilityPolicyOrgWide(a, row) ==
  \/ row.visibility = "public"
  \/ a # ANON /\ row.owner_id = a
  \/ /\ row.visibility \in {"org", "team"}
     /\ row.owner_org_id # NULL
     /\ IsOrgMember(row.owner_org_id, a)

\* policy "Skills visibility policy" (select on skills)
SkillsVisibilityPolicy(a, row) ==
  \/ row.visibility = "public"
  \/ row.visibility = "private" /\ a # ANON /\ row.owner_id = a
  \/ a # ANON /\ row.owner_id = a
  \/ row.visibility = "org" /\ row.owner_org_id # NULL /\ IsOrgMember(row.owner_org_id, a)
  \/ row.visibility = "team" /\ row.team_id # NULL /\ IsTeamMember(row.team_id, a)

\* policy "Skill versions follow skill visibility" (select on skill_versions)
VersionsVisibilityPolicy(a, row) ==
  \/ row.visibility = "public"
  \/ a # ANON /\ row.owner_id = a
  \/ row.visibility = "org" /\ row.owner_org_id # NULL /\ IsOrgMember(row.owner_org_id, a)
  \/ row.visibility = "team" /\ row.team_id # NULL /\ IsTeamMember(row.team_id, a)

\* policy "Users can insert versions for own or org skills"
VersionsInsertPolicy(a, row) ==
  \/ a # ANON /\ row.owner_id = a
  \/ row.owner_org_id # NULL /\ IsOrgMember(row.owner_org_id, a)

(***************************************************************************)
(* Client reads of registry.ts, each filtered by the select policies.      *)
(***************************************************************************)
\* getSkill(owner, name): the id of the visible row with that owner text
GetSkill(a, owner) ==
  LET hit == {k \in SkillIds : /\ skills[k] # NoSkill
                               /\ skills[k].owner = owner
                               /\ SkillsVisibilityPolicy(a, skills[k])}
  IN IF hit = {} THEN NULL ELSE CHOOSE k \in hit : TRUE

\* getOrg(slug): organizations are viewable by their members only
GetOrg(a, slug) == IF slug \in orgs /\ IsOrgMember(slug, a) THEN slug ELSE NULL

\* getUserOrgRole(slug)
GetUserOrgRole(a, slug) ==
  IF a = ANON \/ GetOrg(a, slug) = NULL THEN NULL ELSE members[slug, a]

(***************************************************************************)
(* Requests in flight.                                                     *)
(***************************************************************************)
IdleTx == [op |-> "none", pc |-> "idle", who |-> NONE, on |-> NONE,
           arg |-> NONE, val |-> NONE]

Idle(p) == tx[p] = IdleTx

Finish(p, outcome) ==
  /\ tx' = [tx EXCEPT ![p] = IdleTx]
  /\ res' = [res EXCEPT ![p] = outcome]

\* The verdict of withRateLimit: checkRateLimit throws only when the limiter
\* answered "not allowed"; a failed check is logged and the request proceeds.
RateVerdicts == {"allowed", "denied", "failed"}
RateLimitThrows(verdict) == verdict = "denied"

(***************************************************************************)
(* publishVersion(owner, name, version, content), by principal a.          *)
(***************************************************************************)
CanPublishVersion(a, k) ==
  \/ skills[k].owner_id = a
  \/ /\ skills[k].owner_org_id # NULL
     /\ GetUserOrgRole(a, skills[k].owner) \in {"owner", "admin", "member"}

\* A version row of skill k with version v written by another transaction
\* that has not committed: the unique index makes the insert wait for it.
PendingVersion(p, k, v) ==
  \E q \in Clients \ {p} :
    tx[q].op \in {"publishVersion", "deleteVersion"} /\ tx[q].on = k /\ tx[q].arg = v

\* Mutant: skill_versions without its unique index.
VersionNeverExists(k, v) == FALSE

\* unique(skill_id, version): a committed row of skill k has version v
VersionExists(k, v) == v \in versions[k]

PublishVersionOutcome(a, owner, v, verdict) ==
  LET k == GetSkill(a, owner) IN
  IF RateLimitThrows(verdict) THEN "rate_limited"
  ELSE IF a = ANON THEN "not_authenticated"
  ELSE IF k = NULL THEN "not_found"
  ELSE IF ~CanPublishVersion(a, k) THEN "forbidden"
  ELSE IF ~VersionsInsertPolicy(a, skills[k]) THEN "error"
  ELSE IF VersionExists(k, v) THEN "conflict"
  ELSE IF ~VersionsVisibilityPolicy(a, skills[k]) THEN "error"
  ELSE "inserted"

\* The client-side checks and the INSERT into skill_versions.
PvInsert(p, a, owner, v, content, verdict) ==
  LET k == GetSkill(a, owner)
      out == PublishVersionOutcome(a, owner, v, verdict) IN
  /\ Idle(p)
  /\ IF out = "inserted"
     THEN /\ ~PendingVersion(p, k, v)
          /\ tx' = [tx EXCEPT ![p] = [op |-> "publishVersion", pc |-> "inserted",
                                      who |-> a, on |-> k, arg |-> v, val |-> NONE]]
          /\ draft' = [draft EXCEPT ![p] = [content |-> content, published_at |-> now]]
          /\ UNCHANGED res
     ELSE Finish(p, out) /\ UNCHANGED draft
  /\ UNCHANGED <<orgs, members, teams, teamMembers, skills, versions, skillLock>>
  /\ UNCHANGED <<rateVars, sortVars, versionRows, downloads, usernames>>

\* DELETE FROM skill_versions of one row (retracting a publish), by the
\* store's administrator: no delete policy exists for ordinary principals.
DvDelete(p, k, v) ==
  /\ Idle(p)
  /\ skills[k] # NoSkill
  /\ v \in versions[k]
  /\ ~PendingVersion(p, k, v)
  /\ tx' = [tx EXCEPT ![p] = [op |-> "deleteVersion", pc |-> "inserted",
                              who |-> NONE, on |-> k, arg |-> v, val |-> NONE]]
  /\ UNCHANGED <<orgs, members, teams, teamMembers, skills, versions, skillLock, res>>
  /\ UNCHANGED <<rateVars, svcVars>>

\* The version rows the statement of the trigger sees: the committed rows
\* and the row change of its own transaction.
TriggerSnapshot(p) ==
  IF tx[p].op = "publishVersion"
  THEN versions[tx[p].on] \cup {tx[p].arg}
  ELSE versions[tx[p].on] \ {tx[p].arg}

\* update_skill_latest_version(): the UPDATE statement starts and evaluates
\* its sub-select.
VersionTrigger(p) ==
  /\ tx[p].op \in {"publishVersion", "deleteVersion"}
  /\ tx[p].pc = "inserted"
  /\ \E val \in LatestCandidates(TriggerSnapshot(p)) :
       tx' = [tx EXCEPT ![p].pc = "computed", ![p].val = val]
  /\ UNCHANGED <<orgs, members, teams, teamMembers, skills, versions, skillLock, res>>
  /\ UNCHANGED <<rateVars, svcVars>>

\* The UPDATE takes the lock of the skills row, waiting for a transaction
\* that holds it, and writes the value it computed.
VersionWrite(p) ==
  /\ tx[p].op \in {"publishVersion", "deleteVersion"}
  /\ tx[p].pc = "computed"
  /\ skillLock[tx[p].on] = NONE
  /\ skillLock' = [skillLock EXCEPT ![tx[p].on] = p]
  /\ tx' = [tx EXCEPT ![p].pc = "written"]
  /\ UNCHANGED <<orgs, members, teams, teamMembers, skills, versions, res>>
  /\ UNCHANGED <<rateVars, svcVars>>

VersionCommit(p) ==
  /\ tx[p].op \in {"publishVersion", "deleteVersion"}
  /\ tx[p].pc = "written"
  /\ versions' = [versions EXCEPT ![tx[p].on] =
                    IF tx[p].op = "publishVersion" THEN @ \cup {tx[p].arg}
                    ELSE @ \ {tx[p].arg}]
  /\ skills' = [skills EXCEPT ![tx[p].on].latest_version = tx[p].val]
  /\ skillLock' = [skillLock EXCEPT ![tx[p].on] = NONE]
  /\ versionRows' =
       IF tx[p].op = "publishVersion"
       THEN versionRows \cup {[skill_id |-> tx[p].on, version |-> tx[p].arg,
                               content |-> draft[p].content, published_by |-> tx[p].who,
                               published_at |-> draft[p].published_at]}
       ELSE {r \in versionRows : ~(r.skill_id = tx[p].on /\ r.version = tx[p].arg)}
  /\ draft' = [draft EXCEPT ![p] = NONE]
  /\ Finish(p, IF tx[p].op = "publishVersion" THEN "published" ELSE "deleted")
  /\ UNCHANGED <<orgs, members, teams, teamMembers>>
  /\ UNCHANGED <<rateVars, sortVars, downloads, usernames>>

(***************************************************************************)
(* Rate limiter: time, configuration and counters.                         *)
(***************************************************************************)
\* rate_limit_config as the migration fills it
DefaultRateConfig ==
  [api     |-> [window_seconds |-> 3600, anonymous_limit |-> 60, authenticated_limit |-> 1000],
   publish |-> [window_seconds |-> 3600, anonymous_limit |-> 0, authenticated_limit |-> 30]]

NoVerdict == [allowed |-> TRUE, retryAfter |-> 0, action |-> NONE, window_start |-> 0, nth |-> 0]

InitRate ==
  /\ now = 0
  /\ rateConfig = DefaultRateConfig
  /\ rateLimits = {}
  /\ rateLog = {}
  /\ rl = [p \in Clients |-> NoVerdict]

\* The sweep removes counters created more than this many seconds ago.
SweepAgeSeconds == 7200

\* The retry hint of a denial that carries none (or 0).
DefaultRetryAfter == 3600

\* The instants at which requests arrive, in milliseconds: the start of the
\* first hour, 500 and 300 ms before its end, the start of the second hour,
\* and one second past the second hour.
TimePoints == {0, 3599500, 3599700, 3600000, 7201000}

RateKey(id, act, ws) == [identifier |-> id, action |-> act, window_start |-> ws]
KeyOf(r) == RateKey(r.identifier, r.action, r.window_start)

\* The counter row / ghost entry of a key, as a set with at most one element
RowsOf(rows, key) == {r \in rows : KeyOf(r) = key}

\* The rows the sweep deletes at time at
SweepRows(at) == {r \in rateLimits : r.created_at < at - SweepAgeSeconds * 1000}

\* floor(extract(epoch FROM NOW()) / window_seconds) * window_seconds
WindowStart(at, window_seconds) ==
  (at \div (window_seconds * 1000)) * (window_seconds * 1000)

\* EXTRACT(EPOCH FROM interval)::INTEGER rounds to the nearest second; an
\* exact half rounds up or down with the type extract() returns (tieUp).
RoundSeconds(ms, tieUp) ==
  LET q == ms \div 1000
      r == ms % 1000
  IN IF r > 500 \/ (r = 500 /\ tieUp) THEN q + 1 ELSE q

\* Mutant: the hint of the store passed on as it is.
ClientRetryAfterRaw(retry_after) == retry_after

\* result.retry_after || 3600
ClientRetryAfter(retry_after) ==
  IF retry_after = 0 THEN DefaultRetryAfter ELSE retry_after

\* The counter rows another transaction in flight has written or deleted:
\* a statement that touches one of them, or inserts the same key, waits.
RateBlocked(p, key, touched) ==
  \E q \in Clients \ {p} :
    /\ tx[q].op = "checkRateLimit"
    /\ \/ tx[q].val.key = key
       \/ tx[q].val.touched \cap touched # {}

\* Ghost: one more call made on the key, allowed or not.
LogCall(key, allowed) ==
  LET old == RowsOf(rateLog, key)
      made == IF old = {} THEN 0 ELSE (CHOOSE e \in old : TRUE).made
      ok == IF old = {} THEN 0 ELSE (CHOOSE e \in old : TRUE).allowed
  IN (rateLog \ old) \cup
     {[identifier |-> key.identifier, action |-> key.action,
       window_start |-> key.window_start,
       made |-> made + 1, allowed |-> IF allowed THEN ok + 1 ELSE ok]}

MadeOn(key) ==
  LET old == RowsOf(rateLog, key)
  IN IF old = {} THEN 0 ELSE (CHOOSE e \in old : TRUE).made

RECURSIVE SumMade(_)
SumMade(S) ==
  IF S = {} THEN 0
  ELSE LET e == CHOOSE x \in S : TRUE IN e.made + SumMade(S \ {e})

\* Mutant: check_rate_limit without its early return for a limit of 0.
LimitNeverZero(limit) == FALSE

\* IF v_limit = 0: the action is not allowed for this type of caller
LimitIsZero(limit) == limit = 0

\* checkRateLimit(action, isAuthenticated) with identifier id: the call of
\* check_rate_limit runs its statements.  sweep: random() < 0.01 came true;
\* failed: the call ended in a store error.
RlExec(p, id, act, auth, sweep, failed, tieUp) ==
  LET at == now
      swept == IF sweep /\ ~failed THEN SweepRows(at) ELSE {}
      found == act \in DOMAIN rateConfig
      cfg == rateConfig[act]
      limit == IF auth THEN cfg.authenticated_limit ELSE cfg.anonymous_limit
      ws == WindowStart(at, cfg.window_seconds)
      key == RateKey(id, act, ws)
      old == RowsOf(rateLimits \ swept, key)
      counted == ~failed /\ found /\ ~LimitIsZero(limit)
      touched == IF counted THEN swept \cup old ELSE swept
  IN
  /\ Idle(p)
  /\ ~RateBlocked(p, IF counted THEN key ELSE NONE, touched)
  /\ IF failed THEN
       \* the error is logged and the caller goes on
       /\ Finish(p, "check_failed")
       /\ rl' = [rl EXCEPT ![p] = NoVerdict]
       /\ UNCHANGED <<rateLimits, rateLog>>
     ELSE IF ~found THEN
       /\ Finish(p, "allowed")
       /\ rl' = [rl EXCEPT ![p] = [NoVerdict EXCEPT !.action = act]]
       /\ rateLimits' = rateLimits \ swept
       /\ UNCHANGED rateLog
     ELSE IF LimitIsZero(limit) THEN
       /\ Finish(p, "rate_limited")
       /\ rl' = [rl EXCEPT ![p] = [allowed |-> FALSE, retryAfter |-> ClientRetryAfter(3600),
                                   action |-> act, window_start |-> 0, nth |-> 0]]
       /\ rateLimits' = rateLimits \ swept
       /\ UNCHANGED rateLog
     ELSE
       /\ tx' = [tx EXCEPT ![p] =
            [op |-> "checkRateLimit", pc |-> "executed", who |-> id, on |-> act, arg |-> NONE,
             val |-> [key |-> key, touched |-> touched, limit |-> limit,
                      request_count |-> IF old = {} THEN 1
                                        ELSE (CHOOSE r \in old : TRUE).request_count + 1,
                      created_at |-> IF old = {} THEN at
                                     ELSE (CHOOSE r \in old : TRUE).created_at,
                      retry_after |-> RoundSeconds(ws + cfg.window_seconds * 1000 - at, tieUp)]]]
       /\ UNCHANGED <<res, rl, rateLimits, rateLog>>
  /\ UNCHANGED <<orgs, members, teams, teamMembers, skills, versions, skillLock, now, rateConfig>>
  /\ UNCHANGED svcVars

\* check_rate_limit returns, its transaction commits, and checkRateLimit
\* throws RateLimitError unless the call was allowed.
RlCommit(p) ==
  LET v == tx[p].val
      allowed == ~(v.request_count > v.limit)
  IN
  /\ tx[p].op = "checkRateLimit"
  /\ tx[p].pc = "executed"
  /\ rateLimits' = (rateLimits \ v.touched) \cup
       {[identifier |-> v.key.identifier, action |-> v.key.action,
         window_start |-> v.key.window_start,
         request_count |-> v.request_count, created_at |-> v.created_at]}
  /\ rateLog' = LogCall(v.key, allowed)
  /\ rl' = [rl EXCEPT ![p] =
       [allowed |-> allowed,
        retryAfter |-> IF allowed THEN 0 ELSE ClientRetryAfter(v.retry_after),
        action |-> v.key.action, window_start |-> v.key.window_start,
        nth |-> MadeOn(v.key) + 1]]
  /\ Finish(p, IF allowed THEN "allowed" ELSE "rate_limited")
  /\ UNCHANGED <<orgs, members, teams, teamMembers, skills, versions, skillLock, now, rateConfig>>
  /\ UNCHANGED svcVars

\* Time passes.
Tick(t) ==
  /\ t > now
  /\ now' = t
  /\ UNCHANGED <<orgs, members, teams, teamMembers, skills, versions, skillLock, tx, res,
                 rateConfig, rateLimits, rateLog, rl>>
  /\ UNCHANGED svcVars

(***************************************************************************)
(* Skills and teams.                                                       *)
(***************************************************************************)
\* getTeam(orgSlug, teamSlug): teams are viewable by members of their org
GetTeam(a, orgSlug, t) ==
  IF GetOrg(a, orgSlug) # NULL /\ t \in teams /\ TeamOrg(t) = orgSlug THEN t ELSE NULL

\* policy "Users can insert skills"
SkillsInsertPolicy(a, row) ==
  \/ a # ANON /\ row.owner_id = a /\ row.owner_org_id = NULL
  \/ row.owner_org_id # NULL /\ IsOrgMember(row.owner_org_id, a)

\* policy "Users can update own or org skills"
SkillsUpdatePolicy(a, row) ==
  \/ a # ANON /\ row.owner_id = a
  \/ row.owner_org_id # NULL /\ IsOrgMember(row.owner_org_id, a)

\* skills_owner_xor, skills_team_visibility, skills_private_requires_user_owner
SkillConstraints(row) ==
  /\ (row.owner_id # NULL) # (row.owner_org_id # NULL)
  /\ row.visibility # "team" \/ row.team_id # NULL
  /\ row.visibility # "private" \/ row.owner_org_id = NULL

\* Mutant: no rewrite of the visibility when the team reference goes.
KeepTeamSkillVisibility(old, new) == new

\* fix_team_skill_visibility_trigger (BEFORE UPDATE ON skills)
FixTeamSkillVisibility(old, new) ==
  IF old.team_id # NULL /\ new.team_id = NULL /\ new.visibility = "team"
  THEN [new EXCEPT !.visibility = "org"]
  ELSE new

\* publishSkill(name, options), by principal a: what it does and the row
\* it writes.
\* Mutant: publishSkill without its two visibility checks.
VisibilityUnchecked(visibility, teamId, orgSlug) == FALSE

\* publishSkill's visibility validation: team visibility needs a resolved
\* team, private visibility is for personal skills only
VisibilityRejected(visibility, teamId, orgSlug) ==
  \/ visibility = "team" /\ teamId = NULL
  \/ visibility = "private" /\ orgSlug # NULL

PublishSkillPlan(a, verdict, orgSlug, teamSlug, visibility) ==
  LET teamId == IF orgSlug # NULL /\ teamSlug # NULL THEN GetTeam(a, orgSlug, teamSlug) ELSE NULL
      ownerName == IF orgSlug # NULL THEN orgSlug ELSE a
      existing == GetSkill(a, ownerName)
      updated == FixTeamSkillVisibility(skills[existing],
                   [skills[existing] EXCEPT
                      !.visibility = IF visibility # NULL THEN visibility ELSE @,
                      !.team_id = teamId])
      inserted == [owner_id |-> IF orgSlug # NULL THEN NULL ELSE a,
                   owner_org_id |-> IF orgSlug # NULL THEN orgSlug ELSE NULL,
                   owner |-> ownerName,
                   visibility |-> IF visibility # NULL THEN visibility
                                  ELSE IF orgSlug # NULL THEN "org" ELSE "public",
                   team_id |-> teamId, latest_version |-> NULL, deprecated |-> FALSE, deprecation_message |-> NULL]
      fail(why) == [outcome |-> why, on |-> NULL, row |-> NoSkill]
  IN
  IF RateLimitThrows(verdict) THEN fail("rate_limited")
  ELSE IF a = ANON THEN fail("not_authenticated")
  ELSE IF orgSlug # NULL /\ GetOrg(a, orgSlug) = NULL THEN fail("org_not_found")
  ELSE IF orgSlug # NULL /\ GetUserOrgRole(a, orgSlug) \notin Roles THEN fail("forbidden")
  ELSE IF orgSlug # NULL /\ teamSlug # NULL /\ teamId = NULL THEN fail("team_not_found")
  ELSE IF VisibilityRejected(visibility, teamId, orgSlug) THEN fail("validation")
  ELSE IF existing # NULL THEN
    IF /\ SkillsUpdatePolicy(a, skills[existing])
       /\ SkillConstraints(updated)
       /\ SkillsVisibilityPolicy(a, updated)
    THEN [outcome |-> "skill_updated", on |-> existing, row |-> updated]
    ELSE fail("error")
  ELSE
    IF /\ skills[ownerName] = NoSkill
       /\ SkillsInsertPolicy(a, inserted)
       /\ SkillConstraints(inserted)
       /\ SkillsVisibilityPolicy(a, inserted)
    THEN [outcome |-> "skill_created", on |-> ownerName, row |-> inserted]
    ELSE fail("error")

PublishSkill(p, a, verdict, orgSlug, teamSlug, visibility) ==
  LET plan == PublishSkillPlan(a, verdict, orgSlug, teamSlug, visibility) IN
  /\ Idle(p)
  /\ skills' = IF plan.on = NULL THEN skills ELSE [skills EXCEPT ![plan.on] = plan.row]
  /\ Finish(p, plan.outcome)
  /\ UNCHANGED <<orgs, members, teams, teamMembers, versions, skillLock>>
  /\ UNCHANGED <<rateVars, svcVars>>

\* deprecateSkill: canManage
CanDeprecate(a, k) ==
  \/ skills[k].owner_id = a
  \/ /\ skills[k].owner_org_id # NULL
     /\ GetUserOrgRole(a, skills[k].owner) \in {"owner", "admin"}

DeprecateOutcome(a, owner) ==
  LET k == GetSkill(a, owner) IN
  IF a = ANON THEN "not_authenticated"
  ELSE IF k = NULL THEN "not_found"
  ELSE IF ~CanDeprecate(a, k) THEN "forbidden"
  ELSE "deprecation_set"

\* Mutant: the message is stored whether or not the skill is deprecated.
DeprecationMessageKept(deprecated, message) ==
  IF message \in {NULL, ""} THEN NULL ELSE message

\* deprecated ? (message || null) : null
DeprecationMessage(deprecated, message) ==
  IF deprecated THEN (IF message \in {NULL, ""} THEN NULL ELSE message) ELSE NULL

\* deprecateSkill(owner, name, deprecated, message), by principal a.  The
\* row passes the update policy whenever canManage holds.
DeprecateSkill(p, a, owner, deprecated, message) ==
  LET k == GetSkill(a, owner)
      out == DeprecateOutcome(a, owner) IN
  /\ Idle(p)
  /\ skills' = IF out = "deprecation_set" /\ SkillsUpdatePolicy(a, skills[k])
               THEN [skills EXCEPT ![k].deprecated = deprecated,
                                   ![k].deprecation_message =
                                      DeprecationMessage(deprecated, message)]
               ELSE skills
  /\ Finish(p, out)
  /\ UNCHANGED <<orgs, members, teams, teamMembers, versions, skillLock>>
  /\ UNCHANGED <<rateVars, svcVars>>

\* createTeam({orgSlug, teamSlug, ...}), by principal a
CreateTeam(p, a, orgSlug, t) ==
  LET out == IF GetOrg(a, orgSlug) = NULL THEN "not_found"
             ELSE IF ~CanManageOrg(orgSlug, a) THEN "error"
             ELSE IF t \in teams THEN "already_exists"
             ELSE "team_created" IN
  /\ Idle(p)
  /\ teams' = IF out = "team_created" THEN teams \cup {t} ELSE teams
  /\ Finish(p, out)
  /\ UNCHANGED <<orgs, members, teamMembers, skills, versions, skillLock>>
  /\ UNCHANGED <<rateVars, svcVars>>

\* skills.team_id ... on delete set null, with the BEFORE UPDATE trigger
SetNullTeam(t) ==
  [k \in SkillIds |->
     IF skills[k] # NoSkill /\ skills[k].team_id = t
     THEN FixTeamSkillVisibility(skills[k], [skills[k] EXCEPT !.team_id = NULL])
     ELSE skills[k]]

\* deleteTeam(orgSlug, teamSlug), by principal a.  A team the delete policy
\* hides is not deleted and no error is raised; a constraint violated by
\* the rows that referenced the team aborts the delete.
DeleteTeamOutcome(a, orgSlug, t) ==
  IF GetTeam(a, orgSlug, t) = NULL THEN "not_found"
  ELSE IF ~CanManageOrg(TeamOrg(t), a) THEN "team_deleted_none"
  ELSE IF \E k \in SkillIds : ~SkillConstraints(SetNullTeam(t)[k]) /\ skills[k] # NoSkill THEN "error"
  ELSE IF \E k \in SkillIds : skills[k].team_id = t /\ skills[k].visibility = "team"
    THEN "team_deleted_skill_rewritten"
  ELSE "team_deleted"

DeleteTeam(p, a, orgSlug, t) ==
  LET out == DeleteTeamOutcome(a, orgSlug, t)
      done == out \in {"team_deleted", "team_deleted_skill_rewritten"} IN
  /\ Idle(p)
  /\ teams' = IF done THEN teams \ {t} ELSE teams
  /\ teamMembers' = IF done THEN {m \in teamMembers : m[1] # t} ELSE teamMembers
  /\ skills' = IF done THEN SetNullTeam(t) ELSE skills
  /\ Finish(p, out)
  /\ UNCHANGED <<orgs, members, versions, skillLock>>
  /\ UNCHANGED <<rateVars, svcVars>>

\* addTeamMember(orgSlug, teamSlug, username), by principal a
AddTeamMember(p, a, orgSlug, t, u) ==
  LET out == IF GetTeam(a, orgSlug, t) = NULL THEN "not_found"
             ELSE IF ~CanManageOrg(TeamOrg(t), a) THEN "error"
             ELSE IF <<t, u>> \in teamMembers THEN "already_member"
             ELSE "team_member_added" IN
  /\ Idle(p)
  /\ teamMembers' = IF out = "team_member_added" THEN teamMembers \cup {<<t, u>>}
                    ELSE teamMembers
  /\ Finish(p, out)
  /\ UNCHANGED <<orgs, members, teams, skills, versions, skillLock>>
  /\ UNCHANGED <<rateVars, svcVars>>

\* removeTeamMember(orgSlug, teamSlug, username), by principal a
RemoveTeamMember(p, a, orgSlug, t, u) ==
  LET out == IF GetTeam(a, orgSlug, t) = NULL THEN "not_found"
             ELSE IF ~CanManageOrg(TeamOrg(t), a) \/ <<t, u>> \notin teamMembers
               THEN "team_member_removed_none"
             ELSE "team_member_removed" IN
  /\ Idle(p)
  /\ teamMembers' = IF out = "team_member_removed" THEN teamMembers \ {<<t, u>>}
                    ELSE teamMembers
  /\ Finish(p, out)
  /\ UNCHANGED <<orgs, members, teams, skills, versions, skillLock>>
  /\ UNCHANGED <<rateVars, svcVars>>

(***************************************************************************)
(* Initial states.                                                         *)
(***************************************************************************)
\* The store after the migrations ran: every table empty.
\* No sort has run.
InitSvc ==
  /\ pair = <<NULL, NULL>>
  /\ sorted = NONE
  /\ versionRows = {}
  /\ draft = [p \in Clients |-> NONE]
  /\ downloads = [k \in SkillIds |-> 0]
  /\ usernames = [u \in Users |-> u]

InitEmpty ==
  /\ orgs = {}
  /\ members = [o \in Orgs, u \in Users |-> NONE]
  /\ teams = {}
  /\ teamMembers = {}
  /\ skills = [k \in SkillIds |-> NoSkill]
  /\ versions = [k \in SkillIds |-> {}]
  /\ skillLock = [k \in SkillIds |-> NONE]
  /\ tx = [p \in Clients |-> IdleTx]
  /\ res = [p \in Clients |-> NONE]
  /\ InitRate
  /\ InitSvc

PersonalSkill(u, vis) ==
  [owner_id |-> u, owner_org_id |-> NULL, owner |-> u, visibility |-> vis,
   team_id |-> NULL, latest_version |-> NULL, deprecated |-> FALSE, deprecation_message |-> NULL]

\* u1 has published the skill u1/<name> (public, no version yet).
InitVersions ==
  /\ orgs = {}
  /\ members = [o \in Orgs, u \in Users |-> NONE]
  /\ teams = {}
  /\ teamMembers = {}
  /\ skills = [k \in SkillIds |-> IF k = "u1" THEN PersonalSkill("u1", "public") ELSE NoSkill]
  /\ versions = [k \in SkillIds |-> {}]
  /\ skillLock = [k \in SkillIds |-> NONE]
  /\ tx = [p \in Clients |-> IdleTx]
  /\ res = [p \in Clients |-> NONE]
  /\ InitRate
  /\ InitSvc

(***************************************************************************)
(* Specifications of the versioning engine.                                *)
(***************************************************************************)
\* Clients of u1 publishing versions of u1's skill concurrently.
NextPublish ==
  \E p \in Clients :
    \/ \E v \in Versions : PvInsert(p, "u1", "u1", v, Contents[1], "allowed")
    \/ VersionTrigger(p)
    \/ VersionWrite(p)
    \/ VersionCommit(p)

SpecPublish == InitVersions /\ [][NextPublish]_vars

\* One client at a time inserting and deleting versions of u1's skill.
NextVersions ==
  \E p \in {"c1"} :
    \/ \E v \in Versions \cup LongVersions : PvInsert(p, "u1", "u1", v, Contents[1], "allowed")
    \/ \E v \in Versions \cup LongVersions : DvDelete(p, "u1", v)
    \/ VersionTrigger(p)
    \/ VersionWrite(p)
    \/ VersionCommit(p)

SpecVersions == InitVersions /\ [][NextVersions]_vars

(***************************************************************************)
(* Semantic-version precedence (semver.org, section 11), the order the     *)
(* properties below measure latest_version against.                        *)
(***************************************************************************)
\* Numerals are compared as numbers of any size: without their leading
\* zeros, the shorter is smaller and equally long ones compare digit by digit.
RECURSIVE StripZeros(_)
StripZeros(s) ==
  IF Len(s) > 1 /\ s[1] = "0" THEN StripZeros(SubSeq(s, 2, Len(s))) ELSE s

NumLess(x, y) ==
  LET a == StripZeros(x)
      b == StripZeros(y)
  IN \/ Len(a) < Len(b)
     \/ Len(a) = Len(b) /\ TextLess(a, b)

NumEq(x, y) == StripZeros(x) = StripZeros(y)

RECURSIVE Fields(_, _)
Fields(s, sep) ==
  IF \A i \in 1..Len(s) : s[i] # sep THEN <<s>>
  ELSE LET i == CHOOSE n \in 1..Len(s) : s[n] = sep /\ \A m \in 1..(n - 1) : s[m] # sep
       IN <<SubSeq(s, 1, i - 1)>> \o Fields(SubSeq(s, i + 1, Len(s)), sep)

Semver(v) ==
  LET noBuild == Fields(v, "+")[1]
      dash    == Fields(noBuild, "-")
      core    == Fields(dash[1], ".")
      hasPre  == Len(dash) > 1
  IN [major |-> core[1], minor |-> core[2], patch |-> core[3],
      hasPre |-> hasPre,
      pre |-> IF hasPre THEN Fields(SubSeq(noBuild, Len(dash[1]) + 2, Len(noBuild)), ".")
              ELSE <<>>]

IdentPrecedes(x, y) ==
  LET xn == \A i \in 1..Len(x) : x[i] \in Digits
      yn == \A i \in 1..Len(y) : y[i] \in Digits
  IN IF xn /\ yn THEN NumLess(x, y)
     ELSE IF xn # yn THEN xn
     ELSE TextLess(x, y)

PrePrecedes(x, y) ==
  \E i \in 1..Len(y) :
    /\ \A j \in 1..(i - 1) : j <= Len(x) /\ x[j] = y[j]
    /\ \/ i = Len(x) + 1
       \/ i <= Len(x) /\ IdentPrecedes(x[i], y[i])

\* a has lower precedence than b
SemverPrecedes(a, b) ==
  LET x == Semver(a)
      y == Semver(b)
  IN \/ NumLess(x.major, y.major)
     \/ NumEq(x.major, y.major) /\ NumLess(x.minor, y.minor)
     \/ NumEq(x.major, y.major) /\ NumEq(x.minor, y.minor) /\ NumLess(x.patch, y.patch)
     \/ /\ NumEq(x.major, y.major) /\ NumEq(x.minor, y.minor) /\ NumEq(x.patch, y.patch)
        /\ \/ x.hasPre /\ ~y.hasPre
           \/ x.hasPre /\ y.hasPre /\ PrePrecedes(x.pre, y.pre)

\* latest_version of skill k is a highest-precedence existing version, and
\* NULL when no version exists
LatestIsMax(k) ==
  IF versions[k] = {} THEN skills[k].latest_version = NULL
  ELSE /\ skills[k].latest_version \in versions[k]
       /\ \A w \in versions[k] : ~SemverPrecedes(skills[k].latest_version, w)

AllIdle == \A p \in Clients : Idle(p)

(***************************************************************************)
(* Properties of the versioning engine.                                    *)
(***************************************************************************)
\* C1: once all concurrent publishVersion calls on the skill have finished,
\* latest_version is the maximum by precedence of the inserted versions.
C1_ConcurrentPublishLatestIsMax == AllIdle => LatestIsMax("u1")

\* C2: after each version insert or delete has completed, latest_version is
\* the highest-precedence surviving version, and NULL when none survives.
C2_LatestIsMaxAfterEachOperation == Idle("c1") => LatestIsMax("u1")

\* A delete has completed and left only the pre-releases 1.0.0-2 and
\* 1.0.0-11, the higher of which is the latest version.
C2_Witness ==
  /\ Idle("c1")
  /\ res["c1"] = "deleted"
  /\ versions["u1"] = {VersionList[2], VersionList[3]}
  /\ skills["u1"].latest_version = VersionList[3]

(***************************************************************************)
(* Organizations and their members.                                        *)
(***************************************************************************)
Owners(o) == {u \in Users : members[o, u] = "owner"}

\* A row of org_members written (inserted, updated or deleted) by another
\* transaction that has not committed: a statement on that row waits.
PendingMember(p, o, u) ==
  \E q \in Clients \ {p} :
    /\ tx[q].op \in {"addOrgMember", "removeOrgMember", "updateMemberRole"}
    /\ tx[q].pc = "executed"
    /\ tx[q].on = o
    /\ tx[q].arg = u

PendingOrg(p, o) ==
  \E q \in Clients \ {p} : tx[q].op = "createOrg" /\ tx[q].on = o

\* Mutant: the owner insert fails and the organization row stays (two
\* separate client requests instead of one function call).
CreateOrgNoRollback(slug) == orgs \cup {slug}

\* organizations after create_org_with_owner raised: the exception aborts
\* the transaction of the function call and the inserted row is gone.
CreateOrgRollback(slug) == orgs

\* createOrg: the client checks, then create_org_with_owner inserts the
\* organization row.
CoInsertOrg(p, a, slug) ==
  /\ Idle(p)
  /\ ~PendingOrg(p, slug)
  /\ IF a = ANON THEN Finish(p, "not_authenticated")
     ELSE IF slug \in orgs THEN Finish(p, "already_exists")
     ELSE /\ tx' = [tx EXCEPT ![p] = [op |-> "createOrg", pc |-> "org_inserted",
                                      who |-> a, on |-> slug, arg |-> NONE, val |-> NONE]]
          /\ UNCHANGED res
  /\ UNCHANGED <<orgs, members, teams, teamMembers, skills, versions, skillLock>>
  /\ UNCHANGED <<rateVars, svcVars>>

\* create_org_with_owner inserts the creator's owner membership; the insert
\* may fail (failed = TRUE), which raises out of the function.
CoInsertOwner(p, failed) ==
  /\ tx[p].op = "createOrg"
  /\ tx[p].pc = "org_inserted"
  /\ IF failed
     THEN /\ orgs' = CreateOrgRollback(tx[p].on)
          /\ Finish(p, "create_failed")
     ELSE /\ tx' = [tx EXCEPT ![p].pc = "owner_inserted"]
          /\ UNCHANGED <<orgs, res>>
  /\ UNCHANGED <<members, teams, teamMembers, skills, versions, skillLock>>
  /\ UNCHANGED <<rateVars, svcVars>>

\* The function returns and its transaction commits both rows.
CoCommit(p) ==
  /\ tx[p].op = "createOrg"
  /\ tx[p].pc = "owner_inserted"
  /\ orgs' = orgs \cup {tx[p].on}
  /\ members' = [members EXCEPT ![tx[p].on, tx[p].who] = "owner"]
  /\ Finish(p, "created")
  /\ UNCHANGED <<teams, teamMembers, skills, versions, skillLock>>
  /\ UNCHANGED <<rateVars, svcVars>>

\* Mutant: every member of the organization may insert any membership.
MembersInsertPolicyAnyMember(a, o, role) == IsOrgMember(o, a)

\* policy "Org managers can add members with role restrictions"
MembersInsertPolicy(a, o, role) ==
  \/ CanManageOrg(o, a) /\ role \in {"member", "admin"}
  \/ GetOrgRole(o, a) = "owner" /\ role = "owner"

\* policy "Org managers can update members with role restrictions", USING
MembersUpdateUsing(a, o, oldRole) ==
  \/ GetOrgRole(o, a) = "owner"
  \/ CanManageOrg(o, a) /\ oldRole # "owner"

\* policy "Org managers can remove members with restrictions"
MembersDeletePolicy(a, o, oldRole) ==
  \/ GetOrgRole(o, a) = "owner"
  \/ CanManageOrg(o, a) /\ oldRole # "owner"

\* Mutant: the triggers that protect the last owner let every row pass.
OtherOwnerAssumed(o, u) == TRUE

\* prevent_last_owner_removal / prevent_last_owner_demotion: another owner
\* row of the organization exists (as the trigger's query sees the table)
OtherOwnerExists(o, u) == \E w \in Users \ {u} : members[o, w] = "owner"

\* addOrgMember(slug, username, role): the client-side checks.
AmRead(p, a, slug, u, role) ==
  /\ Idle(p)
  /\ IF GetOrg(a, slug) = NULL THEN Finish(p, "not_found")
     ELSE IF role = "owner" /\ GetUserOrgRole(a, slug) # "owner" THEN Finish(p, "forbidden")
     ELSE /\ tx' = [tx EXCEPT ![p] = [op |-> "addOrgMember", pc |-> "checked",
                                      who |-> a, on |-> slug, arg |-> u, val |-> role]]
          /\ UNCHANGED res
  /\ UNCHANGED <<orgs, members, teams, teamMembers, skills, versions, skillLock>>
  /\ UNCHANGED <<rateVars, svcVars>>

\* addOrgMember: the INSERT into org_members.
AmExec(p) ==
  /\ tx[p].op = "addOrgMember"
  /\ tx[p].pc = "checked"
  /\ ~PendingMember(p, tx[p].on, tx[p].arg)
  /\ IF ~MembersInsertPolicy(tx[p].who, tx[p].on, tx[p].val) THEN Finish(p, "error")
     ELSE IF members[tx[p].on, tx[p].arg] # NONE THEN Finish(p, "already_member")
     ELSE /\ tx' = [tx EXCEPT ![p].pc = "executed"]
          /\ UNCHANGED res
  /\ UNCHANGED <<orgs, members, teams, teamMembers, skills, versions, skillLock>>
  /\ UNCHANGED <<rateVars, svcVars>>

\* removeOrgMember(slug, username): getOrg, getOrgMembers and the client's
\* last-owner check.
RmRead(p, a, slug, u) ==
  /\ Idle(p)
  /\ IF GetOrg(a, slug) = NULL THEN Finish(p, "not_found")
     ELSE IF Owners(slug) = {u} THEN Finish(p, "last_owner")
     ELSE /\ tx' = [tx EXCEPT ![p] = [op |-> "removeOrgMember", pc |-> "checked",
                                      who |-> a, on |-> slug, arg |-> u, val |-> NONE]]
          /\ UNCHANGED res
  /\ UNCHANGED <<orgs, members, teams, teamMembers, skills, versions, skillLock>>
  /\ UNCHANGED <<rateVars, svcVars>>

\* removeOrgMember: the DELETE on org_members.  A row the delete policy
\* hides is not deleted and no error is raised.
RmExec(p) ==
  LET o == tx[p].on
      u == tx[p].arg IN
  /\ tx[p].op = "removeOrgMember"
  /\ tx[p].pc = "checked"
  /\ ~PendingMember(p, o, u)
  /\ IF members[o, u] = NONE \/ ~MembersDeletePolicy(tx[p].who, o, members[o, u])
       THEN Finish(p, "removed_none")
     ELSE IF members[o, u] = "owner" /\ ~OtherOwnerExists(o, u)
       THEN Finish(p, "error")
     ELSE /\ tx' = [tx EXCEPT ![p].pc = "executed"]
          /\ UNCHANGED res
  /\ UNCHANGED <<orgs, members, teams, teamMembers, skills, versions, skillLock>>
  /\ UNCHANGED <<rateVars, svcVars>>

\* UPDATE org_members SET role = ... of one row, as principal a.
UrExec(p, a, o, u, role) ==
  /\ Idle(p)
  /\ ~PendingMember(p, o, u)
  /\ IF members[o, u] = NONE \/ ~MembersUpdateUsing(a, o, members[o, u])
       THEN Finish(p, "updated_none")
     ELSE IF members[o, u] = "owner" /\ role # "owner" /\ ~OtherOwnerExists(o, u)
       THEN Finish(p, "last_owner")
     ELSE IF ~MembersInsertPolicy(a, o, role)
       THEN Finish(p, "forbidden")
     ELSE /\ tx' = [tx EXCEPT ![p] = [op |-> "updateMemberRole", pc |-> "executed",
                                      who |-> a, on |-> o, arg |-> u, val |-> role]]
          /\ UNCHANGED res
  /\ UNCHANGED <<orgs, members, teams, teamMembers, skills, versions, skillLock>>
  /\ UNCHANGED <<rateVars, svcVars>>

\* The transaction of an org_members statement commits.
MemberCommit(p) ==
  /\ tx[p].op \in {"addOrgMember", "removeOrgMember", "updateMemberRole"}
  /\ tx[p].pc = "executed"
  /\ members' = [members EXCEPT ![tx[p].on, tx[p].arg] =
                   IF tx[p].op = "removeOrgMember" THEN NONE ELSE tx[p].val]
  /\ Finish(p, CASE tx[p].op = "addOrgMember" -> "added"
                 [] tx[p].op = "removeOrgMember" -> "removed"
                 [] OTHER -> "updated")
  /\ UNCHANGED <<orgs, teams, teamMembers, skills, versions, skillLock>>
  /\ UNCHANGED <<rateVars, svcVars>>

\* Users create the organization (possibly at the same time), and one
\* client at a time adds, removes and re-roles its members.
NextOrg ==
  \/ \E p \in Clients :
       \/ \E a \in Principals : CoInsertOrg(p, a, "o1")
       \/ \E failed \in BOOLEAN : CoInsertOwner(p, failed)
       \/ CoCommit(p)
  \/ \E p \in {"c1"} :
       \/ \E a \in Principals, u \in Users, role \in Roles : AmRead(p, a, "o1", u, role)
       \/ AmExec(p)
       \/ \E a \in Principals, u \in Users : RmRead(p, a, "o1", u)
       \/ RmExec(p)
       \/ \E a \in Principals, u \in Users, role \in Roles : UrExec(p, a, "o1", u, role)
       \/ MemberCommit(p)

SpecOrg == InitEmpty /\ [][NextOrg]_vars

\* u1 created o1 and added u2 as a second owner.
InitTwoOwners ==
  /\ orgs = {"o1"}
  /\ members = [o \in Orgs, u \in Users |-> IF u \in {"u1", "u2"} THEN "owner" ELSE NONE]
  /\ teams = {}
  /\ teamMembers = {}
  /\ skills = [k \in SkillIds |-> NoSkill]
  /\ versions = [k \in SkillIds |-> {}]
  /\ skillLock = [k \in SkillIds |-> NONE]
  /\ tx = [p \in Clients |-> IdleTx]
  /\ res = [p \in Clients |-> NONE]
  /\ InitRate
  /\ InitSvc

\* The two owners of o1 removing and re-roling members concurrently.
NextOrgRace ==
  \E p \in Clients, a \in {"u1", "u2"}, u \in {"u1", "u2"} :
    \/ RmRead(p, a, "o1", u)
    \/ RmExec(p)
    \/ \E role \in Roles : UrExec(p, a, "o1", u, role)
    \/ MemberCommit(p)

SpecOrgRace == InitTwoOwners /\ [][NextOrgRace]_vars

\* C3: every existing organization has at least one owner membership, under
\* every interleaving of concurrent member removals and role changes.
C3_EveryOrgHasOwner == \A o \in orgs : Owners(o) # {}

\* C4: a createOrg call that failed at the owner insert leaves no
\* organization behind, a createOrg call that succeeded leaves the creator
\* as owner, and no step brings an organization without owner into
\* existence.
C4_CreateOrgAtomic ==
  [][/\ \A o \in orgs' \ orgs : \E u \in Users : members'[o, u] = "owner"
     /\ \A p \in Clients :
          tx[p].op = "createOrg" /\ tx'[p] = IdleTx =>
            IF res'[p] = "created"
            THEN tx[p].on \in orgs' /\ members'[tx[p].on, tx[p].who] = "owner"
            ELSE /\ res'[p] = "create_failed"
                 /\ orgs' = orgs
                 /\ members' = members]_vars

\* One createOrg failed at the owner insert and left nothing; a later one
\* by u2 succeeded.
C4_Witness ==
  /\ res["c1"] = "create_failed"
  /\ res["c2"] = "created"
  /\ orgs = {"o1"}
  /\ members["o1", "u2"] = "owner"
  /\ AllIdle

(***************************************************************************)
(* Specifications and properties of the rate limiter.                      *)
(***************************************************************************)
\* Check calls in one run of a specification
MaxCalls == 62

\* One anonymous installation sending requests, one at a time.
NextRate ==
  \/ \E t \in TimePoints : Tick(t)
  \/ \E p \in {"c1"} :
       \/ /\ SumMade(rateLog) < MaxCalls
          /\ \E sweep \in BOOLEAN, tieUp \in BOOLEAN :
               RlExec(p, "anon-1", "api", FALSE, sweep, FALSE, tieUp)
       \/ RlCommit(p)

SpecRate == InitEmpty /\ [][NextRate]_vars

\* C6: with window 3600 s and anonymous limit 60, every request up to the
\* 60th of a window is allowed, the 61st is denied with a retryAfter of 1 to
\* 3600 seconds, and the first request of the next window is allowed.
C6_SixtyFirstDenied ==
  \A p \in Clients :
    rl[p].action = "api" =>
      /\ rl[p].nth \in 1..60 => rl[p].allowed
      /\ rl[p].nth = 61 => ~rl[p].allowed /\ rl[p].retryAfter \in 1..3600

\* The first window took 61 requests, the last of them denied less than
\* half a second before its end, and the first request of the second
\* window was allowed.
C6_Witness ==
  /\ [identifier |-> "anon-1", action |-> "api", window_start |-> 0,
      made |-> 61, allowed |-> 60] \in rateLog
  /\ rl["c1"].window_start = 3600000
  /\ rl["c1"].nth = 1
  /\ rl["c1"].allowed
  /\ Idle("c1")

\* rate_limit_config after the operator lowered the anonymous api limit,
\* and after the operator also set a three-hour window
TightRateConfig == [DefaultRateConfig EXCEPT !.api.anonymous_limit = 2]
LongWindowRateConfig == [TightRateConfig EXCEPT !.api.window_seconds = 10800]

InitRateRace ==
  /\ orgs = {}
  /\ members = [o \in Orgs, u \in Users |-> NONE]
  /\ teams = {}
  /\ teamMembers = {}
  /\ skills = [k \in SkillIds |-> NoSkill]
  /\ versions = [k \in SkillIds |-> {}]
  /\ skillLock = [k \in SkillIds |-> NONE]
  /\ tx = [p \in Clients |-> IdleTx]
  /\ res = [p \in Clients |-> NONE]
  /\ now = 0
  /\ rateConfig \in {DefaultRateConfig, TightRateConfig, LongWindowRateConfig}
  /\ rateLimits = {}
  /\ rateLog = {}
  /\ rl = [p \in Clients |-> NoVerdict]
  /\ InitSvc

\* Check calls in one run of the concurrent specification
MaxRaceCalls == 4

\* Two clients of one anonymous installation sending requests concurrently.
NextRateRace ==
  \/ \E t \in TimePoints : Tick(t)
  \/ \E p \in Clients :
       \/ /\ SumMade(rateLog) < MaxRaceCalls
          /\ \E sweep \in BOOLEAN, tieUp \in BOOLEAN :
               RlExec(p, "anon-1", "api", FALSE, sweep, FALSE, tieUp)
       \/ RlCommit(p)

SpecRateRace == InitRateRace /\ [][NextRateRace]_vars

Min(a, b) == IF a < b THEN a ELSE b

\* The window of ghost entry e has not ended
WindowCurrent(e) == now < e.window_start + rateConfig[e.action].window_seconds * 1000

\* The counters agree with the calls made: for every key that was called N
\* times, min(N, limit) calls were allowed and, while the window lasts, the
\* counter stands at N.
CountersExact ==
  \A e \in rateLog :
    /\ WindowCurrent(e) => \E r \in RowsOf(rateLimits, KeyOf(e)) : r.request_count = e.made
    /\ e.allowed = Min(e.made, rateConfig[e.action].anonymous_limit)

\* C5: whenever the concurrent check calls of a window have all returned,
\* the window's counter equals the number of calls made and exactly
\* min(N, L) of them were allowed.
C5_NoLostUpdate == AllIdle => CountersExact

(***************************************************************************)
(* Specification and properties of skills, teams and access control.       *)
(***************************************************************************)
\* u1 has created the organization o1.
InitOrg ==
  /\ orgs = {"o1"}
  /\ members = [o \in Orgs, u \in Users |-> IF u = "u1" THEN "owner" ELSE NONE]
  /\ teams = {}
  /\ teamMembers = {}
  /\ skills = [k \in SkillIds |-> NoSkill]
  /\ versions = [k \in SkillIds |-> {}]
  /\ skillLock = [k \in SkillIds |-> NONE]
  /\ tx = [p \in Clients |-> IdleTx]
  /\ res = [p \in Clients |-> NONE]
  /\ InitRate
  /\ InitSvc

\* One request at a time: u1 publishes a personal skill, every principal
\* publishes into o1; the team t1 and its members u1 and u2 come and go; u1
\* adds and removes the organization member u2; u3 stays outside.
NextSkills ==
  \E p \in {"c1"} :
    \/ \E a \in {"u1", ANON}, visibility \in Visibilities \cup {NULL} :
         PublishSkill(p, a, "allowed", NULL, NULL, visibility)
    \/ \E a \in Principals, teamSlug \in Teams \cup {NULL}, visibility \in Visibilities \cup {NULL} :
         PublishSkill(p, a, "allowed", "o1", teamSlug, visibility)
    \/ \E a \in Principals : CreateTeam(p, a, "o1", "t1")
    \/ \E a \in Principals : DeleteTeam(p, a, "o1", "t1")
    \/ \E a \in Principals, u \in {"u1", "u2"} : AddTeamMember(p, a, "o1", "t1", u)
    \/ \E a \in Principals, u \in {"u1", "u2"} : RemoveTeamMember(p, a, "o1", "t1", u)
    \/ \E role \in {"admin", "member"} : AmRead(p, "u1", "o1", "u2", role)
    \/ AmExec(p)
    \/ RmRead(p, "u1", "o1", "u2")
    \/ RmExec(p)
    \/ MemberCommit(p)

SpecSkills == InitOrg /\ [][NextSkills]_vars

\* o1 has the owner u1, the admin u2 and the member u3, and the team t1
\* with the one member u3.
InitManage ==
  /\ orgs = {"o1"}
  /\ members = [o \in Orgs, u \in Users |->
                  CASE u = "u1" -> "owner" [] u = "u2" -> "admin" [] OTHER -> "member"]
  /\ teams = {"t1"}
  /\ teamMembers = {<<"t1", "u3">>}
  /\ skills = [k \in SkillIds |-> NoSkill]
  /\ versions = [k \in SkillIds |-> {}]
  /\ skillLock = [k \in SkillIds |-> NONE]
  /\ tx = [p \in Clients |-> IdleTx]
  /\ res = [p \in Clients |-> NONE]
  /\ InitRate
  /\ InitSvc

\* One request at a time: u1 publishes a personal skill; every principal
\* publishes into o1, publishes versions and deprecates; u1 removes members.
NextManage ==
  \E p \in {"c1"} :
    \/ \E visibility \in {"private", NULL} :
         PublishSkill(p, "u1", "allowed", NULL, NULL, visibility)
    \/ \E a \in Principals, teamSlug \in Teams \cup {NULL}, visibility \in Visibilities \cup {NULL} :
         PublishSkill(p, a, "allowed", "o1", teamSlug, visibility)
    \/ \E a \in Principals, owner \in {"u1", "o1"} : PvInsert(p, a, owner, VersionList[1], Contents[1], "allowed")
    \/ VersionTrigger(p)
    \/ VersionWrite(p)
    \/ VersionCommit(p)
    \/ \E a \in Principals, owner \in {"u1", "o1"}, deprecated \in BOOLEAN :
         DeprecateSkill(p, a, owner, deprecated, NULL)
    \/ \E u \in {"u2", "u3"} : RmRead(p, "u1", "o1", u)
    \/ RmExec(p)
    \/ MemberCommit(p)

SpecManage == InitManage /\ [][NextManage]_vars

\* The canView table: public, or personal owner, or org visibility and
\* member of the owning organization, or team visibility and member of the
\* referenced team.
CanView(a, row) ==
  \/ row.visibility = "public"
  \/ a \in Users /\ row.owner_id = a
  \/ /\ row.visibility = "org"
     /\ a \in Users
     /\ row.owner_org_id \in orgs
     /\ members[row.owner_org_id, a] \in Roles
  \/ /\ row.visibility = "team"
     /\ a \in Users
     /\ row.team_id \in teams
     /\ <<row.team_id, a>> \in teamMembers

\* C7: a principal gets a skill from the registry exactly when the canView
\* table says so.
C7_CanViewTable ==
  \A a \in Principals, k \in SkillIds :
    skills[k] # NoSkill => ((GetSkill(a, skills[k].owner) = k) <=> CanView(a, skills[k]))

\* A team skill of o1 that the team member u1 gets and the organization
\* member u2, who is not in the team, does not get.
C7_Witness ==
  /\ skills["o1"] # NoSkill
  /\ skills["o1"].visibility = "team"
  /\ members["o1", "u2"] \in Roles
  /\ <<"t1", "u2">> \notin teamMembers
  /\ <<"t1", "u1">> \in teamMembers
  /\ GetSkill("u2", "o1") = NULL
  /\ GetSkill("u1", "o1") = "o1"

\* The canManage table
HoldsRole(a, o, roles) == a \in Users /\ o \in orgs /\ members[o, a] \in roles

MayMutate(a, row) ==
  \/ a \in Users /\ row.owner_id = a
  \/ HoldsRole(a, row.owner_org_id, {"owner", "admin", "member"})

MayDeprecate(a, row) ==
  \/ a \in Users /\ row.owner_id = a
  \/ HoldsRole(a, row.owner_org_id, {"owner", "admin"})

\* The outcomes of a call that was refused or could not reach its target
Refusals == {"not_authenticated", "not_found", "org_not_found", "forbidden", "error"}

Refused(p) == tx'[p] = IdleTx /\ res'[p] \in Refusals

NothingWritten == skills' = skills /\ versions' = versions

\* C8: publishing into an organization and publishing a version are
\* authorized exactly for the personal owner and the holders of any role in
\* the owning organization, deprecating exactly for the personal owner and
\* the owners and admins; a call that is not authorized is refused and
\* writes nothing.
C8_CanManageTable ==
  [][\A a \in Principals :
       /\ \A k \in SkillIds :
            skills[k] # NoSkill /\ PvInsert("c1", a, skills[k].owner, VersionList[1], Contents[1], "allowed")
              => /\ MayMutate(a, skills[k]) <=> ~Refused("c1")
                 /\ ~MayMutate(a, skills[k]) => NothingWritten
       /\ \A k \in SkillIds, deprecated \in BOOLEAN :
            skills[k] # NoSkill /\ DeprecateSkill("c1", a, skills[k].owner, deprecated, NULL)
              => /\ MayDeprecate(a, skills[k]) <=> ~Refused("c1")
                 /\ ~MayDeprecate(a, skills[k]) => NothingWritten
       /\ \A teamSlug \in Teams \cup {NULL}, visibility \in Visibilities \cup {NULL} :
            PublishSkill("c1", a, "allowed", "o1", teamSlug, visibility)
              => /\ HoldsRole(a, "o1", Roles) <=> ~Refused("c1")
                 /\ ~HoldsRole(a, "o1", Roles) => NothingWritten]_vars

\* Visibility consistency of one skills row
VisibilityConsistent(row) ==
  /\ row.visibility = "team" =>
       row.team_id \in teams /\ row.owner_org_id \in orgs /\ TeamOrg(row.team_id) = row.owner_org_id
  /\ row.visibility = "private" => row.owner_id \in Users /\ row.owner_org_id = NULL
  /\ row.visibility \in {"org", "team"} => row.owner_org_id \in orgs

\* C9: every skill satisfies visibility consistency, after any sequence of
\* publishSkill, deleteTeam and membership operations.
C9_VisibilityConsistency ==
  \A k \in SkillIds : skills[k] # NoSkill => VisibilityConsistent(skills[k])

\* C10: a deleteTeam by an owner or admin of the organization removes the
\* team and leaves every skill in existence, the skills that referenced the
\* team without team reference and with visibility org where it was team;
\* and no skill ever has team visibility with a missing team.
C10_DeleteTeamRewritesSkills ==
  /\ [](\A k \in SkillIds : skills[k].visibility = "team" => skills[k].team_id \in teams)
  /\ [][\A a \in Principals :
          /\ DeleteTeam("c1", a, "o1", "t1")
          /\ "t1" \in teams
          /\ HoldsRole(a, "o1", {"owner", "admin"})
          => /\ "t1" \notin teams'
             /\ \A k \in SkillIds :
                  skills[k] # NoSkill =>
                    /\ skills'[k] # NoSkill
                    /\ skills[k].team_id # "t1" => skills'[k] = skills[k]
                    /\ skills[k].team_id = "t1" =>
                         /\ skills'[k].team_id = NULL
                         /\ skills'[k].visibility =
                              IF skills[k].visibility = "team" THEN "org"
                              ELSE skills[k].visibility]_vars

\* The team of the team skill o1/<name> was deleted: the skill exists with
\* visibility org and without team reference.
C10_Witness ==
  /\ res["c1"] = "team_deleted_skill_rewritten"
  /\ Idle("c1")
  /\ teams = {}
  /\ skills["o1"] # NoSkill
  /\ skills["o1"].visibility = "org"
  /\ skills["o1"].team_id = NULL

C12_OwnerRoleReservedToOwners ==
  [][\A a \in Users, u \in Users :
       /\ "o1" \in orgs /\ members["o1", a] = "admin" =>
            /\ AmRead("c1", a, "o1", u, "owner")
                 => res'["c1"] = "forbidden" /\ Idle("c1")'
            /\ \A role \in Roles :
                 /\ members["o1", u] # NONE
                 /\ (role = "owner") # (members["o1", u] = "owner")
                 /\ UrExec("c1", a, "o1", u, role)
                 => res'["c1"] = "forbidden" /\ Idle("c1")' /\ members' = members
            /\ /\ tx["c1"].op = "removeOrgMember"
               /\ tx["c1"].who = a
               /\ tx["c1"].arg = u
               /\ members["o1", u] = "owner"
               /\ RmExec("c1")
               => res'["c1"] = "forbidden" /\ Idle("c1")' /\ members' = members
       /\ "o1" \in orgs /\ members["o1", a] = "owner" =>
            \A role \in Roles :
              /\ members["o1", u] # NONE
              /\ (role = "owner") # (members["o1", u] = "owner")
              /\ OtherOwnerExists("o1", u)
              /\ UrExec("c1", a, "o1", u, role)
              => tx'["c1"].pc = "executed"]_vars

(***************************************************************************)
(* The sort key as an order: a statement sorting two version strings by    *)
(* semver_sort_key.                                                        *)
(***************************************************************************)
\* ORDER BY semver_sort_key(version) over the two rows of pair
OrderBySortKey ==
  /\ sorted = NONE
  /\ sorted' = IF ArrayLess(SemverSortKey(pair[1]), SemverSortKey(pair[2])) THEN "less"
               ELSE IF ArrayLess(SemverSortKey(pair[2]), SemverSortKey(pair[1])) THEN "greater"
               ELSE "equal"
  /\ UNCHANGED <<orgs, members, teams, teamMembers, skills, versions, skillLock, tx, res,
                 rateVars, pair, versionRows, draft, downloads, usernames>>

InitSemver ==
  /\ orgs = {}
  /\ members = [o \in Orgs, u \in Users |-> NONE]
  /\ teams = {}
  /\ teamMembers = {}
  /\ skills = [k \in SkillIds |-> NoSkill]
  /\ versions = [k \in SkillIds |-> {}]
  /\ skillLock = [k \in SkillIds |-> NONE]
  /\ tx = [p \in Clients |-> IdleTx]
  /\ res = [p \in Clients |-> NONE]
  /\ InitRate
  /\ pair \in AllVersions \X AllVersions
  /\ sorted = NONE
  /\ versionRows = {}
  /\ draft = [p \in Clients |-> NONE]
  /\ downloads = [k \in SkillIds |-> 0]
  /\ usernames = [u \in Users |-> u]

NextSemver == OrderBySortKey

SpecSemver == InitSemver /\ [][NextSemver]_vars

\* C13: the sort key orders two version strings exactly as semantic-version
\* precedence does: the first sorts below the second iff it has lower
\* precedence, above iff it has higher precedence, and the chain
\* 1.0.0-2 < 1.0.0-11 < 1.0.0 < 1.0.1 sorts in that order.
C13_SortKeyIsSemverPrecedence ==
  sorted # NONE =>
    /\ (sorted = "less") = SemverPrecedes(pair[1], pair[2])
    /\ (sorted = "greater") = SemverPrecedes(pair[2], pair[1])
    /\ pair \in {<<VersionList[2], VersionList[3]>>, <<VersionList[3], VersionList[1]>>,
                 <<VersionList[1], VersionList[4]>>} => sorted = "less"

InitRepublish ==
  /\ orgs = {"o1"}
  /\ members = [o \in Orgs, u \in Users |->
                  CASE u = "u1" -> "owner" [] u = "u2" -> "admin" [] OTHER -> "member"]
  /\ teams = {"t1"}
  /\ teamMembers = {<<"t1", "u3">>}
  /\ skills = [k \in SkillIds |->
                 IF k = "o1"
                 THEN [owner_id |-> NULL, owner_org_id |-> "o1", owner |-> "o1",
                       visibility |-> "org", team_id |-> NULL, latest_version |-> NULL,
                       deprecated |-> FALSE, deprecation_message |-> NULL]
                 ELSE NoSkill]
  /\ versions = [k \in SkillIds |-> {}]
  /\ skillLock = [k \in SkillIds |-> NONE]
  /\ tx = [p \in Clients |-> IdleTx]
  /\ res = [p \in Clients |-> NONE]
  /\ InitRate
  /\ InitSvc

RepublishVersions == {VersionList[1], VersionList[4]}

NextRepublish ==
  \E p \in Clients :
    \/ \E a \in {"u1", "u2"}, v \in RepublishVersions, i \in 1..Len(Contents) :
         PvInsert(p, a, "o1", v, Contents[i], "allowed")
    \/ \E v \in RepublishVersions : DvDelete(p, "o1", v)
    \/ VersionTrigger(p)
    \/ VersionWrite(p)
    \/ VersionCommit(p)

SpecRepublish == InitRepublish /\ [][NextRepublish]_vars

UniqueVersionRows ==
  \A r1 \in versionRows, r2 \in versionRows :
    r1.skill_id = r2.skill_id /\ r1.version = r2.version => r1 = r2

MaxDownloads == 2

\* What can become of one attempt of the RPC: it returns; the request is
\* lost before the store ran it; the store ran it and the reply is lost.
\* The two losses surface in the client as a network error.
Attempts == {"returned", "request_lost", "reply_lost"}

\* isRetryableError(error) for the error of an attempt
IsRetryableError(attempt) == attempt \in {"request_lost", "reply_lost"}

\* withRetry's maxAttempts as incrementDownloads passes it
DownloadMaxAttempts == 2

\* The rows the UPDATE of increment_downloads matches, for auth.uid() = a
DownloadRows(a, p_owner) ==
  {k \in SkillIds :
     /\ skills[k] # NoSkill
     /\ \/ skills[k].owner_id = p_owner /\ p_owner \in Users
        \/ skills[k].owner_org_id = p_owner /\ p_owner \in orgs
     /\ \/ skills[k].visibility = "public"
        \/ skills[k].owner_id = a
        \/ /\ skills[k].visibility = "org"
           /\ skills[k].owner_org_id # NULL
           /\ IsOrgMember(skills[k].owner_org_id, a)
        \/ /\ skills[k].visibility = "team"
           /\ skills[k].team_id # NULL
           /\ IsTeamMember(skills[k].team_id, a)}

\* Mutant: increment_downloads without its authentication check.
IncrementDownloadsAnonymous(a, p_owner) ==
  [k \in SkillIds |-> IF k \in DownloadRows(a, p_owner) THEN downloads[k] + 1
                      ELSE downloads[k]]

\* increment_downloads(p_owner, p_name) run by the store for auth.uid() = a
IncrementDownloads(a, p_owner) ==
  IF a = ANON THEN downloads
  ELSE [k \in SkillIds |-> IF k \in DownloadRows(a, p_owner) THEN downloads[k] + 1
                           ELSE downloads[k]]

\* The counters after one attempt of the RPC with the given fate.
AfterAttempt(a, p_owner, attempt) ==
  IF attempt = "request_lost" THEN downloads ELSE IncrementDownloads(a, p_owner)

\* incrementDownloads, first attempt of withRetry.
DlCall(p, a, p_owner, attempt) ==
  /\ Idle(p)
  /\ \A k \in SkillIds : downloads[k] < MaxDownloads
  /\ \A k \in DownloadRows(a, p_owner) : skillLock[k] = NONE
  /\ downloads' = AfterAttempt(a, p_owner, attempt)
  /\ IF IsRetryableError(attempt) /\ DownloadMaxAttempts > 1
     THEN /\ tx' = [tx EXCEPT ![p] = [op |-> "incrementDownloads", pc |-> "retry",
                                      who |-> a, on |-> NONE, arg |-> p_owner,
                                      val |-> [attempt |-> 2,
                                               applied |-> IF downloads' = downloads
                                                           THEN 0 ELSE 1]]]
          /\ UNCHANGED res
     ELSE Finish(p, IF IsRetryableError(attempt) THEN "network_error" ELSE "download_recorded")
  /\ UNCHANGED <<orgs, members, teams, teamMembers, skills, versions, skillLock>>
  /\ UNCHANGED <<rateVars, sortVars, versionRows, draft, usernames>>

\* withRetry after its delay: the next attempt; the last one's error is thrown.
DlRetry(p, attempt) ==
  LET a == tx[p].who
      p_owner == tx[p].arg IN
  /\ tx[p].op = "incrementDownloads"
  /\ tx[p].pc = "retry"
  /\ \A k \in SkillIds : downloads[k] < MaxDownloads
  /\ \A k \in DownloadRows(a, p_owner) : skillLock[k] = NONE
  /\ downloads' = AfterAttempt(a, p_owner, attempt)
  /\ IF IsRetryableError(attempt) /\ tx[p].val.attempt < DownloadMaxAttempts
     THEN /\ tx' = [tx EXCEPT ![p].val = [attempt |-> @.attempt + 1,
                                          applied |-> @.applied +
                                            IF downloads' = downloads THEN 0 ELSE 1]]
          /\ UNCHANGED res
     ELSE Finish(p, IF IsRetryableError(attempt) THEN "network_error" ELSE "download_recorded")
  /\ UNCHANGED <<orgs, members, teams, teamMembers, skills, versions, skillLock>>
  /\ UNCHANGED <<rateVars, sortVars, versionRows, draft, usernames>>

\* The callers of incrementDownloads: nobody, u1 (owner of a personal skill,
\* in o1 but not in its team) and u3 (in o1 and in its team).
Downloaders == {ANON, "u1", "u3"}

\* Client c1: u1 publishes and republishes a personal skill, the member u3 a
\* skill of o1.  Client c2: downloads of both skills are recorded.
NextDownloads ==
  \/ \E visibility \in {"public", "private"} :
       PublishSkill("c1", "u1", "allowed", NULL, NULL, visibility)
  \/ \E teamSlug \in Teams \cup {NULL}, visibility \in {"public", "org", "team"} :
       PublishSkill("c1", "u3", "allowed", "o1", teamSlug, visibility)
  \/ \E a \in Downloaders, p_owner \in {"u1", "o1"}, attempt \in Attempts :
       DlCall("c2", a, p_owner, attempt)
  \/ \E attempt \in Attempts : DlRetry("c2", attempt)

SpecDownloads == InitManage /\ [][NextDownloads]_vars

\* The counter of the skill of owner goes up by exactly n, no other changes.
Counted(owner, n) ==
  downloads' = [downloads EXCEPT ![owner] = @ + n]

TightPublishConfig == [DefaultRateConfig EXCEPT !.publish.authenticated_limit = 2]

InitGuard ==
  /\ orgs = {}
  /\ members = [o \in Orgs, u \in Users |-> NONE]
  /\ teams = {}
  /\ teamMembers = {}
  /\ skills = [k \in SkillIds |-> NoSkill]
  /\ versions = [k \in SkillIds |-> {}]
  /\ skillLock = [k \in SkillIds |-> NONE]
  /\ tx = [p \in Clients |-> IdleTx]
  /\ res = [p \in Clients |-> NONE]
  /\ now = 0
  /\ rateConfig = TightPublishConfig
  /\ rateLimits = {}
  /\ rateLog = {}
  /\ rl = [p \in Clients |-> NoVerdict]
  /\ InitSvc

\* Check calls in one run of the guarded specification
MaxGuardCalls == 4

\* checkRateLimit of client p has returned without throwing and operation()
\* has not run yet.
CheckReturned(p) == Idle(p) /\ res[p] \in {"allowed", "check_failed"}

\* What withRateLimit knows of the check when it calls operation().
GuardVerdict(p) == IF res[p] = "allowed" THEN "allowed" ELSE "failed"

\* withRateLimit('publish', ...) of publishSkill: operation() after the check
GuardedPublishSkill(p, a, visibility) ==
  /\ CheckReturned(p)
  /\ PublishSkill(p, a, GuardVerdict(p), NULL, NULL, visibility)

\* withRateLimit('publish', ...) of publishVersion: operation() after the check
GuardedPublishVersion(p, a, owner, v) ==
  /\ CheckReturned(p)
  /\ PvInsert(p, a, owner, v, Contents[1], GuardVerdict(p))

\* u1, signed in, publishes a personal skill and versions of it through
\* withRateLimit; the store may fail the check.
NextGuard ==
  \/ \E t \in {3600000} : Tick(t)
  \/ \E p \in {"c1"} :
       \/ /\ ~CheckReturned(p)
          /\ SumMade(rateLog) < MaxGuardCalls
          /\ \E failed \in BOOLEAN : RlExec(p, "u1", "publish", TRUE, FALSE, failed, FALSE)
       \/ RlCommit(p)
       \/ \E visibility \in {"public", "private"} : GuardedPublishSkill(p, "u1", visibility)
       \/ \E v \in RepublishVersions : GuardedPublishVersion(p, "u1", "u1", v)
       \/ VersionTrigger(p)
       \/ VersionWrite(p)
       \/ VersionCommit(p)

SpecGuard == InitGuard /\ [][NextGuard]_vars

\* C17: the operation guarded by withRateLimit runs only after a check that
\* returned allowed; after a check that failed with a store error it does
\* not run.
C17_OperationOnlyAfterAllowed ==
  [][\A p \in {"c1"} :
       \/ \E visibility \in {"public", "private"} : GuardedPublishSkill(p, "u1", visibility)
       \/ \E v \in RepublishVersions : GuardedPublishVersion(p, "u1", "u1", v)
       => res[p] = "allowed"]_vars

(***************************************************************************)
(* Attempts per store call.                                                *)
(***************************************************************************)
\* C18: incrementDownloads makes a single attempt: whatever becomes of it,
\* the call is over after it (a network failure is surfaced to the caller),
\* so no attempt is made after one that the store has already run, and one
\* call raises a download counter by at most one.
C18_SingleAttempt ==
  [][/\ \A a \in Downloaders, owner \in {"u1", "o1"}, attempt \in Attempts :
          DlCall("c2", a, owner, attempt) => Idle("c2")'
     /\ \A attempt \in Attempts :
          DlRetry("c2", attempt) /\ tx["c2"].val.applied = 1 => downloads' = downloads
    ]_vars

(***************************************************************************)
(* Username changes.  In this part a skill id is a row id: the skill a     *)
(* user publishes takes a free id, and skills[k].owner is the owner name   *)
(* the row stores.                                                         *)
(***************************************************************************)
\* The usernames u1 and u2 take: their first ones and one more.
Usernames == {"u1", "u2", "n1"}

\* sync_skill_owner_username() for the users row NEW = (u, name)
SyncSkillOwnerUsername(u, name) ==
  [k \in SkillIds |->
     IF skills[k] # NoSkill /\ skills[k].owner_id = u /\ skills[k].owner # name
     THEN [skills[k] EXCEPT !.owner = name]
     ELSE skills[k]]

\* unique(owner, name) of skills, for one skill name
OwnerNameTaken(rows, k, name) ==
  \E j \in SkillIds \ {k} : rows[j] # NoSkill /\ rows[j].owner = name

\* UPDATE of users.username (handle_new_user's upsert) with its trigger, one
\* transaction.  It fails, changing nothing, when the username is taken or a
\* synced skill would collide with a skill of the same owner name.
RenameUser(p, u, name) ==
  LET synced == SyncSkillOwnerUsername(u, name)
      ok == /\ \A w \in Users \ {u} : usernames[w] # name
            /\ \A k \in SkillIds :
                 synced[k] # skills[k] => ~OwnerNameTaken(synced, k, name)
  IN
  /\ Idle(p)
  /\ usernames[u] # name
  /\ \A k \in SkillIds : skills[k] # NoSkill /\ skills[k].owner_id = u => skillLock[k] = NONE
  /\ usernames' = IF ok THEN [usernames EXCEPT ![u] = name] ELSE usernames
  /\ skills' = IF ok THEN synced ELSE skills
  /\ Finish(p, IF ok THEN "renamed" ELSE "error")
  /\ UNCHANGED <<orgs, members, teams, teamMembers, versions, skillLock>>
  /\ UNCHANGED <<rateVars, sortVars, versionRows, draft, downloads>>

\* publishSkill(name, {visibility}) of a personal skill: getUser() returns
\* the caller's users row.
PsGetUser(p, a) ==
  /\ Idle(p)
  /\ tx' = [tx EXCEPT ![p] = [op |-> "publishSkill", pc |-> "user_read", who |-> a,
                              on |-> NONE, arg |-> usernames[a], val |-> NONE]]
  /\ UNCHANGED <<orgs, members, teams, teamMembers, skills, versions, skillLock, res>>
  /\ UNCHANGED <<rateVars, svcVars>>

\* publishSkill goes on with the username it read: getSkill(ownerName, name),
\* then the UPDATE of the row it found or the INSERT of a new one.
PsWrite(p, visibility) ==
  LET a == tx[p].who
      ownerName == tx[p].arg
      existing == GetSkill(a, ownerName)
      updated == FixTeamSkillVisibility(skills[existing],
                   [skills[existing] EXCEPT !.visibility = visibility, !.team_id = NULL])
      inserted == [owner_id |-> a, owner_org_id |-> NULL, owner |-> ownerName,
                   visibility |-> visibility, team_id |-> NULL, latest_version |-> NULL,
                   deprecated |-> FALSE, deprecation_message |-> NULL]
      free == {k \in Users : skills[k] = NoSkill}
      slot == CHOOSE k \in free : TRUE
  IN
  /\ tx[p].op = "publishSkill"
  /\ tx[p].pc = "user_read"
  /\ existing # NULL => skillLock[existing] = NONE
  /\ IF VisibilityRejected(visibility, NULL, NULL) THEN
       Finish(p, "validation") /\ UNCHANGED skills
     ELSE IF existing # NULL THEN
       IF /\ SkillsUpdatePolicy(a, skills[existing])
          /\ SkillConstraints(updated)
          /\ SkillsVisibilityPolicy(a, updated)
       THEN /\ skills' = [skills EXCEPT ![existing] = updated]
            /\ Finish(p, "skill_updated")
       ELSE Finish(p, "error") /\ UNCHANGED skills
     ELSE
       IF /\ free # {}
          /\ ~OwnerNameTaken(skills, NONE, ownerName)
          /\ SkillsInsertPolicy(a, inserted)
          /\ SkillConstraints(inserted)
          /\ SkillsVisibilityPolicy(a, inserted)
       THEN /\ skills' = [skills EXCEPT ![slot] = inserted]
            /\ Finish(p, "skill_created")
       ELSE Finish(p, "error") /\ UNCHANGED skills
  /\ UNCHANGED <<orgs, members, teams, teamMembers, versions, skillLock>>
  /\ UNCHANGED <<rateVars, svcVars>>

\* u1 and u2 publish personal skills and change their usernames, from two
\* clients; o1 owns a skill.
NextRename ==
  \E p \in Clients :
    \/ \E u \in {"u1", "u2"}, name \in Usernames : RenameUser(p, u, name)
    \/ \E a \in {"u1", "u2"} : PsGetUser(p, a)
    \/ \E visibility \in {"public", "private"} : PsWrite(p, visibility)

SpecRename == InitRepublish /\ [][NextRename]_vars

\* Every personally owned skill carries the current username of its owner.
OwnerNamesCurrent ==
  \A k \in SkillIds :
    skills[k] # NoSkill /\ skills[k].owner_id \in Users
      => skills[k].owner = usernames[skills[k].owner_id]

\* C19: a username change leaves every skill the user personally owns with
\* the new username as owner name and every other skill as it was, and in no
\* state does a personally owned skill carry a name other than its owner's
\* current username.
C19_OwnerNameFollowsUsername ==
  [][/\ \A p \in Clients, u \in {"u1", "u2"}, name \in Usernames :
          RenameUser(p, u, name) /\ usernames'[u] = name =>
            \A k \in SkillIds :
              IF skills[k] # NoSkill /\ skills[k].owner_id = u
              THEN skills'[k] = [skills[k] EXCEPT !.owner = name]
              ELSE skills'[k] = skills[k]
     /\ OwnerNamesCurrent'
    ]_vars

(***************************************************************************)
(* getAllVersions(owner, name): the listing of a skill's versions.         *)
(***************************************************************************)
\* The results the query of getAllVersions can give principal a: the visible
\* rows of the skill in an order of descending published_at.
GetAllVersions(a, owner) ==
  LET k == GetSkill(a, owner)
      rows == IF k = NULL THEN {}
              ELSE {r \in versionRows : r.skill_id = k /\ VersionsVisibilityPolicy(a, skills[k])}
      n == Cardinality(rows)
  IN {s \in [1..n -> rows] :
        /\ \A i \in 1..n, j \in 1..n : i # j => s[i] # s[j]
        /\ \A i \in 1..n, j \in 1..n : i < j => s[i].published_at >= s[j].published_at}

\* The instants at which versions are published.
PublishTimes == {1000, 2000, 3000}

ListedVersions == {VersionList[1], VersionList[3], VersionList[4]}

\* u1 publishes versions of u1's skill one at a time, each at a later instant
\* than the ones before, and retracts versions.
NextListing ==
  \/ \E t \in PublishTimes : Tick(t)
  \/ \E p \in {"c1"} :
       \/ /\ \A r \in versionRows : r.published_at < now
          /\ \E v \in ListedVersions : PvInsert(p, "u1", "u1", v, Contents[1], "allowed")
       \/ \E v \in ListedVersions : DvDelete(p, "u1", v)
       \/ VersionTrigger(p)
       \/ VersionWrite(p)
       \/ VersionCommit(p)

SpecListing == InitVersions /\ [][NextListing]_vars

\* C20: whenever no publish is under way, the first version of the listing of
\* u1's skill is the skill's latest_version.
C20_ListingHeadIsLatest ==
  Idle("c1") =>
    \A s \in GetAllVersions("u1", "u1") :
      Len(s) > 0 => s[1].version = skills["u1"].latest_version

(***************************************************************************)
(* deleteOrg(slug), by principal a.                                        *)
(***************************************************************************)
\* The cascade of DELETE FROM organizations deletes the org_members rows of
\* the organization one by one; before each owner row goes,
\* prevent_last_owner_removal looks for another owner among the rows still
\* there.  TRUE when the trigger raises for the rows left.
RECURSIVE CascadeRaises(_, _)
CascadeRaises(o, left) ==
  IF left = {} THEN FALSE
  ELSE LET u == CHOOSE x \in left : TRUE
       IN \/ /\ members[o, u] = "owner"
             /\ ~\E w \in left \ {u} : members[o, w] = "owner"
          \/ CascadeRaises(o, left \ {u})

DeleteOrgOutcome(a, slug) ==
  IF GetOrg(a, slug) = NULL THEN "org_not_found"
  ELSE IF GetOrgRole(slug, a) # "owner" THEN "org_deleted_none"
  ELSE IF CascadeRaises(slug, {u \in Users : members[slug, u] # NONE}) THEN "error"
  ELSE "org_deleted"

DeleteOrg(p, a, slug) ==
  LET out == DeleteOrgOutcome(a, slug)
      done == out = "org_deleted"
      gone == {k \in SkillIds : skills[k] # NoSkill /\ skills[k].owner_org_id = slug}
  IN
  /\ Idle(p)
  /\ orgs' = IF done THEN orgs \ {slug} ELSE orgs
  /\ members' = IF done THEN [o \in Orgs, u \in Users |-> IF o = slug THEN NONE ELSE members[o, u]]
                ELSE members
  /\ teams' = IF done THEN {t \in teams : TeamOrg(t) # slug} ELSE teams
  /\ teamMembers' = IF done THEN {m \in teamMembers : TeamOrg(m[1]) # slug} ELSE teamMembers
  /\ skills' = IF done THEN [k \in SkillIds |-> IF k \in gone THEN NoSkill ELSE skills[k]]
               ELSE skills
  /\ versions' = IF done THEN [k \in SkillIds |-> IF k \in gone THEN {} ELSE versions[k]]
                 ELSE versions
  /\ versionRows' = IF done THEN {r \in versionRows : r.skill_id \notin gone} ELSE versionRows
  /\ Finish(p, out)
  /\ UNCHANGED skillLock
  /\ UNCHANGED <<rateVars, sortVars, draft, downloads, usernames>>

\* o1 with owner u1, admin u2, member u3 and team t1: members publish skills
\* of o1, u1 changes roles and removes members, and every principal calls
\* deleteOrg, one request at a time.
NextDeleteOrg ==
  \E p \in {"c1"} :
    \/ \E a \in Principals : DeleteOrg(p, a, "o1")
    \/ \E teamSlug \in Teams \cup {NULL}, visibility \in {"public", "org", "team"} :
         PublishSkill(p, "u3", "allowed", "o1", teamSlug, visibility)
    \/ \E u \in {"u2", "u3"}, role \in Roles : UrExec(p, "u1", "o1", u, role)
    \/ \E u \in {"u2", "u3"} : RmRead(p, "u1", "o1", u)
    \/ RmExec(p)
    \/ MemberCommit(p)

SpecDeleteOrg == InitManage /\ [][NextDeleteOrg]_vars

\* C21: deleteOrg by an owner succeeds and removes the organization with its
\* memberships, teams and skills; deleteOrg by anyone else removes nothing.
C21_DeleteOrgByOwner ==
  [][\A a \in Principals :
       DeleteOrg("c1", a, "o1") =>
         IF GetOrgRole("o1", a) = "owner"
         THEN /\ res'["c1"] = "org_deleted"
              /\ "o1" \notin orgs'
              /\ \A u \in Users : members'["o1", u] = NONE
              /\ teams' = {}
              /\ teamMembers' = {}
              /\ skills'["o1"] = NoSkill
         ELSE UNCHANGED <<orgs, members, teams, teamMembers, skills, versions>>]_vars

(***************************************************************************)
(* The publish command: publishSkill, then publishVersion of the next      *)
(* patch version, each through withRateLimit('publish', ...).              *)
(***************************************************************************)
\* Check calls in one run of the publish command specification
MaxPublishChecks == 32

RECURSIVE SumAllowed(_)
SumAllowed(S) ==
  IF S = {} THEN 0
  ELSE LET e == CHOOSE x \in S : TRUE IN e.allowed + SumAllowed(S \ {e})

RECURSIVE Numeral(_)
Numeral(n) == IF n < 10 THEN <<Alphabet[n + 1]>> ELSE Numeral(n \div 10) \o <<Alphabet[(n % 10) + 1]>>

RECURSIVE NumberOf(_)
NumberOf(s) ==
  IF s = <<>> THEN 0 ELSE NumberOf(SubSeq(s, 1, Len(s) - 1)) * 10 + CharRank(s[Len(s)]) - 1

\* The version the command publishes: 1.0.0 for a skill without a latest
\* version, else semver.inc(latest_version, 'patch') (for a latest version
\* without pre-release or build part).
NextPatchVersion(latest) ==
  IF latest = NULL THEN VersionList[1]
  ELSE LET parts == StringToArray(latest, ".")
       IN parts[1] \o <<".">> \o parts[2] \o <<".">> \o Numeral(NumberOf(parts[3]) + 1)

\* The command is at its publishSkill call when the allowed checks so far
\* are an even number, at its publishVersion call when they are odd.
AtPublishSkill == SumAllowed(rateLog) % 2 = 0

\* u1, signed in, runs the publish command again and again in one window,
\* until a check denies.
NextPublishCommand ==
  \E p \in {"c1"} :
    \/ /\ ~CheckReturned(p)
       /\ SumMade(rateLog) = SumAllowed(rateLog)
       /\ SumMade(rateLog) < MaxPublishChecks
       /\ \E tieUp \in BOOLEAN : RlExec(p, "u1", "publish", TRUE, FALSE, FALSE, tieUp)
    \/ RlCommit(p)
    \/ /\ ~AtPublishSkill
       /\ versions["u1"] = {} \/ skills["u1"].latest_version # NULL
       /\ \E visibility \in {"public", "private"} : GuardedPublishSkill(p, "u1", visibility)
    \/ /\ AtPublishSkill
       /\ GuardedPublishVersion(p, "u1", "u1", NextPatchVersion(skills["u1"].latest_version))
    \/ VersionTrigger(p)
    \/ VersionWrite(p)
    \/ VersionCommit(p)

SpecPublishCommand == InitEmpty /\ [][NextPublishCommand]_vars

\* The publishes u1 has completed.
CompletedPublishes == Cardinality(versions["u1"])

\* C22: in one window the rate limiter denies no check of u1's first 30
\* publishes, and there is no 31st.
C22_ThirtyPublishes ==
  /\ res["c1"] = "rate_limited" => CompletedPublishes = 30
  /\ CompletedPublishes <= 30

\* C23: every member of a team is a member of the team's organization, and
\* a user without a membership in o1 gets no org-visibility or
\* team-visibility skill that o1 owns.
C23_TeamMembersAreOrgMembers ==
  /\ \A m \in teamMembers : members[TeamOrg(m[1]), m[2]] \in Roles
  /\ \A u \in Users :
       (/\ members["o1", u] = NONE
        /\ skills["o1"] # NoSkill
        /\ skills["o1"].visibility \in {"org", "team"})
       => GetSkill(u, "o1") = NULL

(***************************************************************************)
(* Who may write memberships.                                              *)
(***************************************************************************)
RoleRank(role) == CASE role = "owner" -> 3 [] role = "admin" -> 2 [] role = "member" -> 1 [] OTHER -> 0

\* C24: a membership statement that commits was issued by an owner or an
\* admin of the organization; issued by an admin it leaves the set of owners
\* as it is; and the role of a membership it creates is not above the
\* actor's own role.
C24_MembershipWritesByManagers ==
  [][MemberCommit("c1") =>
       LET actorRole == GetOrgRole(tx["c1"].on, tx["c1"].who) IN
       /\ actorRole \in {"owner", "admin"}
       /\ actorRole # "owner" =>
            \A u \in Users : (members'[tx["c1"].on, u] = "owner") <=> (u \in Owners(tx["c1"].on))
       /\ tx["c1"].op = "addOrgMember"
            => RoleRank(members'[tx["c1"].on, tx["c1"].arg]) <= RoleRank(actorRole)]_vars

\* The member u2 of o1 tried to add a member and the insert policy refused.
C24_Witness ==
  /\ res["c1"] = "error"
  /\ Idle("c1")
  /\ members["o1", "u1"] = "owner"
  /\ members["o1", "u2"] = "member"
  /\ members["o1", "u3"] = NONE

(***************************************************************************)
(* The lazy sweep of check_rate_limit.                                     *)
(***************************************************************************)
\* C25: the counter of a window that has not ended is never removed, and
\* every check is allowed exactly when it is at most the limit-th call of
\* its window, whether or not a sweep has fired.
C25_SweepKeepsCurrentWindows ==
  /\ \A e \in rateLog : WindowCurrent(e) => RowsOf(rateLimits, KeyOf(e)) # {}
  /\ \A p \in Clients :
       rl[p].nth > 0 => (rl[p].allowed <=> rl[p].nth <= rateConfig[rl[p].action].anonymous_limit)

\* C26: publishSkill on a skill the caller can get, called without a
\* visibility option, leaves the skill's visibility and owner as they are.
C26_RepublishKeepsVisibility ==
  [][\A a \in Principals, orgSlug \in {"o1", NULL}, teamSlug \in Teams \cup {NULL} :
       LET k == GetSkill(a, IF orgSlug # NULL THEN orgSlug ELSE a) IN
       k # NULL /\ PublishSkill("c1", a, "allowed", orgSlug, teamSlug, NULL)
         => /\ skills'[k].visibility = skills[k].visibility
            /\ skills'[k].owner = skills[k].owner]_vars

(***************************************************************************)
(* The three places that decide who sees a skill.                          *)
(***************************************************************************)
\* C27: for every principal and every skill, the select policy of
\* skill_versions passes exactly when the select policy of skills does, and
\* for a signed-in principal the UPDATE of increment_downloads matches the
\* skill exactly when the select policy of skills passes.
C27_VisibilityPredicatesAgree ==
  \A a \in Principals, k \in SkillIds :
    skills[k] # NoSkill =>
      /\ VersionsVisibilityPolicy(a, skills[k]) <=> SkillsVisibilityPolicy(a, skills[k])
      /\ a \in Users =>
           (k \in DownloadRows(a, skills[k].owner) <=> SkillsVisibilityPolicy(a, skills[k]))

\* A team skill of o1 that the team member u3 has downloaded and that u1,
\* owner of o1 but not in the team, neither gets nor can download.
C27_Witness ==
  /\ skills["o1"] # NoSkill
  /\ skills["o1"].visibility = "team"
  /\ downloads["o1"] = 1
  /\ GetSkill("u3", "o1") = "o1"
  /\ "o1" \in DownloadRows("u3", "o1")
  /\ GetSkill("u1", "o1") = NULL
  /\ "o1" \notin DownloadRows("u1", "o1")
  /\ ~VersionsVisibilityPolicy("u1", skills["o1"])

(***************************************************************************)
(* latest_version as a function of the surviving versions.                 *)
(***************************************************************************)
\* 1.0.0+a and 1.0.0+b: versions that differ only in build metadata.
BuildVersions == {<<"1", ".", "0", ".", "0", "+", "a">>, VersionList[6]}

\* One client at a time inserting and deleting 1.0.0+a, 1.0.0+b, 1.0.0-a and
\* 1.0.1 on u1's skill.
NextBuildMeta ==
  \E p \in {"c1"} :
    \/ \E v \in BuildVersions \cup {VersionList[4], VersionList[5]} :
         PvInsert(p, "u1", "u1", v, Contents[1], "allowed")
    \/ \E v \in BuildVersions \cup {VersionList[4], VersionList[5]} : DvDelete(p, "u1", v)
    \/ VersionTrigger(p)
    \/ VersionWrite(p)
    \/ VersionCommit(p)

SpecBuildMeta == InitVersions /\ [][NextBuildMeta]_vars

\* C28: after each insert or delete, latest_version is the one value the
\* set of surviving versions determines, whatever the history that led to
\* the set.
C28_LatestDeterminedBySet ==
  Idle("c1") => LatestCandidates(versions["u1"]) = {skills["u1"].latest_version}

(***************************************************************************)
(* Checks that never count: no configuration, or a limit of 0.             *)
(***************************************************************************)
\* Counted check calls in one run of the specification below
MaxFixedCalls == 3

\* One anonymous installation: counted api checks, anonymous publish checks
\* (limit 0) and checks of an action without configuration, with and
\* without the sweep, as time passes.
NextRateFixed ==
  \/ \E t \in TimePoints : Tick(t)
  \/ \E p \in {"c1"} :
       \/ /\ SumMade(rateLog) < MaxFixedCalls
          /\ \E sweep \in BOOLEAN : RlExec(p, "anon-1", "api", FALSE, sweep, FALSE, FALSE)
       \/ \E act \in {"publish", "other"}, sweep \in BOOLEAN :
            RlExec(p, "anon-1", act, FALSE, sweep, FALSE, FALSE)
       \/ RlCommit(p)

SpecRateFixed == InitEmpty /\ [][NextRateFixed]_vars

\* C29: a check of an action without configuration returns allowed, an
\* anonymous publish check (limit 0) is denied with a retry hint of 3600
\* seconds, whatever counters exist; neither adds a counter row or changes
\* one.
C29_UncountedChecks ==
  [][\A act \in {"publish", "other"}, sweep \in BOOLEAN :
       RlExec("c1", "anon-1", act, FALSE, sweep, FALSE, FALSE) =>
         /\ Idle("c1")'
         /\ act = "other" => res'["c1"] = "allowed"
         /\ act = "publish" =>
              /\ res'["c1"] = "rate_limited"
              /\ ~rl'["c1"].allowed
              /\ rl'["c1"].retryAfter = 3600
         /\ rateLimits' \subseteq rateLimits
         /\ rateLog' = rateLog]_vars

\* An anonymous publish check was denied with the hint 3600 after two api
\* checks of the same installation had been counted.
C29_Witness ==
  /\ res["c1"] = "rate_limited"
  /\ rl["c1"].action = "publish"
  /\ rl["c1"].retryAfter = 3600
  /\ \E r \in rateLimits : r.action = "api" /\ r.request_count = 2

(***************************************************************************)
(* Deprecation.                                                            *)
(***************************************************************************)
\* The message argument of deprecateSkill: absent, empty, or a text.
DeprecationMessages == {NULL, "", "moved"}

\* One request at a time: u1 publishes and republishes a personal skill, the
\* member u3 a skill of o1; the members of o1 deprecate and un-deprecate both.
NextDeprecate ==
  \E p \in {"c1"} :
    \/ \E visibility \in {"public", "private", NULL} :
         PublishSkill(p, "u1", "allowed", NULL, NULL, visibility)
    \/ \E visibility \in {"public", "org", NULL} :
         PublishSkill(p, "u3", "allowed", "o1", NULL, visibility)
    \/ \E a \in Users, owner \in {"u1", "o1"}, deprecated \in BOOLEAN,
          message \in DeprecationMessages :
         DeprecateSkill(p, a, owner, deprecated, message)

SpecDeprecate == InitManage /\ [][NextDeprecate]_vars

\* C30: a skill that is not deprecated has no deprecation message.
C30_NoMessageUnlessDeprecated ==
  \A k \in SkillIds : ~skills[k].deprecated => skills[k].deprecation_message = NULL

\* The only skill, u1's, is not deprecated and has no message after a
\* deprecateSkill call on it went through; the skill of o1 does not exist.
C30_Witness ==
  /\ res["c1"] = "deprecation_set"
  /\ skills["o1"] = NoSkill
  /\ skills["u1"] # NoSkill
  /\ ~skills["u1"].deprecated
  /\ skills["u1"].deprecation_message = NULL

====
